---- MODULE Spec2Model ----
(***************************************************************************)
(* Group backup plugin (src/main.py): the capture command group_backup,    *)
(* the delete command, the export and restore commands as far as they      *)
(* touch the store, the download helper with its semaphore, the snapshot   *)
(* store they read and write, and the change detection that runs between   *)
(* the two.  Each command first decides from its sender and the           *)
(* configured admin_users whether it runs at all; restore sets the avatar  *)
(* and the member settings of the target group from the latest snapshot.   *)
(*                                                                         *)
(* One command is an asyncio coroutine.  Coroutines of one event loop      *)
(* interleave only where the code awaits or yields; the code between two   *)
(* such points runs without interruption.  The model keeps a position (pc) *)
(* per coroutine and a queue (todo) of the file-system effects the running *)
(* synchronous section still has to perform, in program order.             *)
(*                                                                         *)
(* Failures the environment can inject (faults): a platform API call that  *)
(* raises, a download that gets a non-200 status or a network error, a     *)
(* download whose file write breaks off ("torn"), a snapshot file write    *)
(* that raises before the file is opened ("write") or breaks off ("dump"), *)
(* the removal of a directory that raises ("rmtree").                      *)
(* Writes of the log and archive files and moves of album folders and      *)
(* media files are taken to succeed.  The image downloads of notices and   *)
(* essence messages are left out; every backup option is enabled.          *)
(***************************************************************************)
EXTENDS Integers, Sequences, FiniteSets, TLC

\* ---------------------------------------------------------------- bounds
MaxCaptures == 2        \* capture commands issued in one behaviour
MaxClock == 2           \* seconds the wall clock advances
MaxRemoteChanges == 2   \* changes made to the remote group in one behaviour
MaxQueries == 1         \* export, restore and delete commands issued in one behaviour

\* ------------------------------------------------------------- universes
Groups == {1, 2}                 \* group ids
Runs == {1, 2}                   \* coroutines of the capture command
UserIds == {1, 2}
NoticeIds == {1, 2}
Texts == {"t1", "t2"}
MessageIds == {1, 2}
AlbumIds == {1, 2}
AlbumNames == {"a", "b"}
MediaIds == {1, 2}
ModifyTimes == {1, 2}

\* who can send a command: a bot administrator or not, under a user id
Senders == [is_admin : BOOLEAN, user_id : UserIds]

\* data_to_save, in the order its keys are written
FileKeys == <<"group_detail", "members", "notices", "essence", "honors", "albums", "album_media">>

FileKeySet == {FileKeys[i] : i \in 1..Len(FileKeys)}

\* asyncio.Semaphore(5): the downloads that may run at once
DownloadPermits == 5

\* the pictures a group avatar can be
Avatars == {"p1", "p2", "p3"}

\* ---------------------------------------------------------------- helpers
Max(S) == CHOOSE x \in S : \A y \in S : y <= x

Min(S) == CHOOSE x \in S : \A y \in S : x <= y

RECURSIVE SortedSeq(_)
\* the elements of a finite set of integers, ascending
SortedSeq(S) == IF S = {} THEN <<>> ELSE <<Min(S)>> \o SortedSeq(S \ {Min(S)})

RECURSIVE SeqConcat(_)
\* flattens a sequence of sequences
SeqConcat(ss) == IF ss = <<>> THEN <<>> ELSE Head(ss) \o SeqConcat(Tail(ss))

Range(s) == {s[i] : i \in 1..Len(s)}

\* ------------------------------------------------------------------ state
VARIABLES
    clock,      \* datetime.now(), in seconds
    remote,     \* the groups as the platform API reports them
    disk,       \* plugin_data_dir/<group_id>/ for every group
    run,        \* the capture coroutines
    faults,     \* the failures the environment may inject in this behaviour
    issued,     \* capture commands issued so far
    changed,    \* remote changes made so far
    permits,    \* the free permits of download_semaphore
    asked,      \* export, restore and delete commands issued so far
    admin_users, \* the user ids of the configuration item admin_users
    senders     \* the users who send the commands of this behaviour

vars == <<clock, remote, disk, run, faults, issued, changed, permits, asked, admin_users, senders>>

\* a snapshot directory with no file in it, and what loading no directory
\* gives: present are the <key>.json files that load, torn those that hold a
\* write that broke off and do not load
EmptyData ==
    [present |-> {}, torn |-> {}, group_detail |-> {}, members |-> <<>>, notices |-> <<>>,
     essence |-> <<>>, honors |-> {}, albums |-> <<>>, album_media |-> <<>>]

\* plugin_data_dir/<group_id> before anything was written
EmptyDir ==
    [snapshots |-> <<>>,
     member_changes |-> <<>>,
     content_changes |-> <<>>,
     deleted_items |-> [notices |-> <<>>, essence |-> <<>>, albums |-> <<>>, media |-> <<>>],
     albums |-> <<>>,
     archived_albums |-> <<>>,
     \* group_avatar.png and temp_avatar.png ("none": no such file), the
     \* avatar_<timestamp>.png files of the archive tree by timestamp, and
     \* the files of albums/ that hold the bytes of a broken-off write
     avatar |-> "none",
     temp_avatar |-> "none",
     archived_avatars |-> <<>>,
     torn |-> {}]

\* the timestamp-named directories of a group directory
SnapshotNames(d) == DOMAIN d.snapshots

\* ------------------------------------------------- the snapshot store
\* the loader giving nothing unless every file of the directory loads
GetLatestBackupDataWhole(d) ==
    IF SnapshotNames(d) = {} THEN EmptyData
    ELSE LET latest_backup_dir == d.snapshots[Max(SnapshotNames(d))]
         IN  IF latest_backup_dir.present = FileKeySet THEN latest_backup_dir ELSE EmptyData

\* _get_latest_backup_data: the directory with the greatest name, whatever it
\* holds; every *.json file in it that loads is a key of the result, a file
\* that does not load is logged and left out
GetLatestBackupData(d) ==
    IF SnapshotNames(d) = {} THEN EmptyData
    ELSE LET latest_backup_dir == d.snapshots[Max(SnapshotNames(d))]
         IN  [k \in DOMAIN EmptyData |->
                 IF k = "present" THEN latest_backup_dir.present
                 ELSE IF k \in latest_backup_dir.present THEN latest_backup_dir[k]
                 ELSE EmptyData[k]]

\* _append_log starting from an empty list whatever the file holds
AppendLogFresh(d, now, log_name, log_entry) ==
    [d EXCEPT ![log_name] = <<[log_time |-> now] @@ log_entry>>]

\* _append_log: read the list, append the entry under its log_time, write it back
AppendLog(d, now, log_name, log_entry) ==
    [d EXCEPT ![log_name] = Append(@, [log_time |-> now] @@ log_entry)]

\* _archive_deleted_items starting from an empty map whatever the file holds
ArchiveDeletedItemsFresh(d, now, item_type, items) ==
    [d EXCEPT !.deleted_items =
        [k \in DOMAIN @ |->
            IF k = item_type
            THEN [i \in 1..Len(items) |-> [deleted_at |-> now, content |-> items[i]]]
            ELSE <<>>]]

\* _archive_deleted_items: read the map, append one wrapper per item, write it back
ArchiveDeletedItems(d, now, item_type, items) ==
    [d EXCEPT !.deleted_items[item_type] =
        @ \o [i \in 1..Len(items) |-> [deleted_at |-> now, content |-> items[i]]]]

\* the album folder made in the group directory itself, under a name of
\* digits that sorts after every timestamp
MkdirAlbumInRoot(d, name) ==
    [d EXCEPT !.snapshots = (MaxClock + 2 :> EmptyData) @@ @]

\* album_save_dir.mkdir(parents=True, exist_ok=True)
MkdirAlbum(d, name) ==
    IF name \in DOMAIN d.albums THEN d
    ELSE [d EXCEPT !.albums = (name :> {}) @@ @]

\* a function without one element of its domain
Without(f, k) == [x \in DOMAIN f \ {k} |-> f[x]]

\* the rename merging the old folder into an existing one of the new name
RenameAlbumMerging(d, now, album_id, old_name, new_name) ==
    IF old_name \in DOMAIN d.albums
    THEN AppendLog([d EXCEPT !.albums = (new_name :> (d.albums[old_name] \cup (IF new_name \in DOMAIN d.albums THEN d.albums[new_name] ELSE {})))
                                        @@ Without(@, old_name)],
                   now, "content_changes",
                   [type |-> "album_renamed", album_id |-> album_id,
                    old_name |-> old_name, new_name |-> new_name])
    ELSE d

\* the rename step of _backup_albums: the folder moves only when the old one
\* exists and the new one does not, and only then the rename is logged
RenameAlbum(d, now, album_id, old_name, new_name) ==
    IF old_name \in DOMAIN d.albums /\ new_name \notin DOMAIN d.albums
    THEN AppendLog([d EXCEPT !.albums = (new_name :> d.albums[old_name]) @@ Without(@, old_name)],
                   now, "content_changes",
                   [type |-> "album_renamed", album_id |-> album_id,
                    old_name |-> old_name, new_name |-> new_name])
    ELSE d

\* a removed album's folder: an existing archive folder of that name is
\* removed first, then the folder is moved into the archive tree
MoveAlbumDir(d, old_name) ==
    IF old_name \in DOMAIN d.albums
    THEN [d EXCEPT !.archived_albums = (old_name :> d.albums[old_name]) @@ Without(@, old_name),
                   !.albums = Without(@, old_name)]
    ELSE d

\* the candidate extensions of a removed media item's file, in the order tried
MediaExts == <<".jpg", ".mp4", ".png">>

\* the first candidate file of a media item that exists in the album folder
FirstExisting(files, media_id) ==
    LET hits == {i \in 1..Len(MediaExts) : <<media_id, MediaExts[i]>> \in files}
    IN  IF hits = {} THEN {} ELSE {<<media_id, MediaExts[Min(hits)]>>}

\* a removed media item's file moves from the album folder into the archive
\* tree (dst_file.parent is created when missing)
MoveMedia(d, album_name, media_id) ==
    IF album_name \notin DOMAIN d.albums THEN d
    ELSE LET moved == FirstExisting(d.albums[album_name], media_id)
             before == IF album_name \in DOMAIN d.archived_albums
                       THEN d.archived_albums[album_name] ELSE {}
         IN  IF moved = {} THEN d
             ELSE [d EXCEPT !.albums[album_name] = @ \ moved,
                            !.archived_albums = (album_name :> (before \cup moved)) @@ @]

\* shutil.copy2 of group_avatar.png to logs/deleted_items/avatar_<timestamp>.png,
\* then the log entry that names the copy
ArchiveAvatar(d, now) ==
    AppendLog([d EXCEPT !.archived_avatars = (now :> d.avatar) @@ @],
              now, "content_changes", [type |-> "avatar_updated", old_avatar |-> now])

\* one file-system effect of a synchronous section, applied to a group directory
ApplyOp(d, now, o) ==
    CASE o.op = "append_log" -> AppendLog(d, now, o.log_name, o.log_entry)
      [] o.op = "archive" -> ArchiveDeletedItems(d, now, o.item_type, o.items)
      [] o.op = "mkdir_album" -> MkdirAlbum(d, o.name)
      [] o.op = "rename_album" -> RenameAlbum(d, now, o.album_id, o.old_name, o.new_name)
      [] o.op = "move_album_dir" -> MoveAlbumDir(d, o.name)
      [] o.op = "move_media" -> MoveMedia(d, o.album_name, o.media_id)
      [] o.op = "archive_avatar" -> ArchiveAvatar(d, now)
      [] o.op = "apply_avatar" -> [d EXCEPT !.avatar = d.temp_avatar, !.temp_avatar = "none"]
      [] o.op = "unlink_temp_avatar" -> [d EXCEPT !.temp_avatar = "none"]

LogOp(log_name, log_entry) ==
    [op |-> "append_log", log_name |-> log_name, log_entry |-> log_entry]

ArchiveOp(item_type, items) ==
    [op |-> "archive", item_type |-> item_type, items |-> items]

\* ------------------------------------------------- the change detector
\* the type field of a log entry: 入群, 退群, 新增公告, 公告已删除, 群精华已删除,
\* 相册已改名, 相册已删除, 媒体文件已删除 are written "join", "leave", "notice_added",
\* "notice_deleted", "essence_deleted", "album_renamed", "album_deleted",
\* "media_deleted"

\* the records of s whose key is the key of no record of t
NotIn(s, t, key) ==
    SelectSeq(s, LAMBDA x : \A i \in 1..Len(t) : t[i][key] # x[key])

\* the keys the comparisons index their maps by
UserId == "user_id"

NoticeId == "notice_id"

MessageId == "message_id"

MediaId == "media_id"

\* the member comparison with the leavers looked up in the wrong map
MemberDiffOpsLeaversInOld(latest_data, members) ==
    IF "members" \notin latest_data.present THEN <<>>
    ELSE LET joiners == NotIn(members, latest_data.members, UserId)
             leavers == NotIn(latest_data.members, latest_data.members, UserId)
         IN  [i \in 1..Len(joiners) |->
                 LogOp("member_changes", [type |-> "join", user_id |-> joiners[i].user_id,
                                          nickname |-> joiners[i].nickname])]
             \o
             [i \in 1..Len(leavers) |->
                 LogOp("member_changes", [type |-> "leave", user_id |-> leavers[i].user_id,
                                          nickname |-> leavers[i].nickname])]

\* the member comparison made also when no prior member list was loaded
MemberDiffOpsUnguarded(latest_data, members) ==
    LET joiners == NotIn(members, latest_data.members, UserId)
        leavers == NotIn(latest_data.members, members, UserId)
    IN  [i \in 1..Len(joiners) |->
            LogOp("member_changes", [type |-> "join", user_id |-> joiners[i].user_id,
                                     nickname |-> joiners[i].nickname])]
        \o
        [i \in 1..Len(leavers) |->
            LogOp("member_changes", [type |-> "leave", user_id |-> leavers[i].user_id,
                                     nickname |-> leavers[i].nickname])]

\* the member comparison matching whole records instead of user ids
MemberDiffOpsByRecord(latest_data, members) ==
    IF "members" \notin latest_data.present THEN <<>>
    ELSE LET joiners == SelectSeq(members, LAMBDA m : m \notin Range(latest_data.members))
             leavers == SelectSeq(latest_data.members, LAMBDA m : m \notin Range(members))
         IN  [i \in 1..Len(joiners) |->
                 LogOp("member_changes", [type |-> "join", user_id |-> joiners[i].user_id,
                                          nickname |-> joiners[i].nickname])]
             \o
             [i \in 1..Len(leavers) |->
                 LogOp("member_changes", [type |-> "leave", user_id |-> leavers[i].user_id,
                                          nickname |-> leavers[i].nickname])]

\* the member comparison of group_backup: one entry per joiner, then one per leaver
MemberDiffOps(latest_data, members) ==
    IF "members" \notin latest_data.present THEN <<>>
    ELSE LET joiners == NotIn(members, latest_data.members, UserId)
             leavers == NotIn(latest_data.members, members, UserId)
         IN  [i \in 1..Len(joiners) |->
                 LogOp("member_changes", [type |-> "join", user_id |-> joiners[i].user_id,
                                          nickname |-> joiners[i].nickname])]
             \o
             [i \in 1..Len(leavers) |->
                 LogOp("member_changes", [type |-> "leave", user_id |-> leavers[i].user_id,
                                          nickname |-> leavers[i].nickname])]

\* the notice comparison with the removed notices logged before they are archived
NoticeDiffOpsLogFirst(latest_data, notices) ==
    IF "notices" \notin latest_data.present THEN <<>>
    ELSE LET joiners == NotIn(notices, latest_data.notices, NoticeId)
             deleted_notices == NotIn(latest_data.notices, notices, NoticeId)
         IN  [i \in 1..Len(joiners) |->
                 LogOp("content_changes", [type |-> "notice_added",
                                           notice_id |-> joiners[i].notice_id,
                                           text |-> joiners[i].text])]
             \o
             (IF deleted_notices = <<>> THEN <<>>
              ELSE [i \in 1..Len(deleted_notices) |->
                       LogOp("content_changes", [type |-> "notice_deleted",
                                                 notice_id |-> deleted_notices[i].notice_id])]
                   \o <<ArchiveOp("notices", deleted_notices)>>)

\* the notice comparison: added notices are logged; removed notices are
\* archived in one call and then logged one by one
NoticeDiffOps(latest_data, notices) ==
    IF "notices" \notin latest_data.present THEN <<>>
    ELSE LET joiners == NotIn(notices, latest_data.notices, NoticeId)
             deleted_notices == NotIn(latest_data.notices, notices, NoticeId)
         IN  [i \in 1..Len(joiners) |->
                 LogOp("content_changes", [type |-> "notice_added",
                                           notice_id |-> joiners[i].notice_id,
                                           text |-> joiners[i].text])]
             \o
             (IF deleted_notices = <<>> THEN <<>>
              ELSE <<ArchiveOp("notices", deleted_notices)>> \o
                   [i \in 1..Len(deleted_notices) |->
                       LogOp("content_changes", [type |-> "notice_deleted",
                                                 notice_id |-> deleted_notices[i].notice_id])])

\* the essence comparison taking every prior message for a removed one
EssenceDiffOpsAllDeleted(latest_data, essence) ==
    IF "essence" \notin latest_data.present \/ latest_data.essence = <<>> THEN <<>>
    ELSE <<ArchiveOp("essence", latest_data.essence)>> \o
         [i \in 1..Len(latest_data.essence) |->
             LogOp("content_changes", [type |-> "essence_deleted",
                                       message_id |-> latest_data.essence[i].message_id])]

\* the essence comparison: removed messages are archived, then logged
EssenceDiffOps(latest_data, essence) ==
    IF "essence" \notin latest_data.present THEN <<>>
    ELSE LET deleted_essence == NotIn(latest_data.essence, essence, MessageId)
         IN  IF deleted_essence = <<>> THEN <<>>
             ELSE <<ArchiveOp("essence", deleted_essence)>> \o
                  [i \in 1..Len(deleted_essence) |->
                      LogOp("content_changes", [type |-> "essence_deleted",
                                                message_id |-> deleted_essence[i].message_id])]

\* next((a for a in albums if a["album_id"] == album_id), default)
AlbumInfo(albums, album_id, default) ==
    LET hits == {i \in 1..Len(albums) : albums[i].album_id = album_id}
    IN  IF hits = {} THEN default ELSE albums[Min(hits)]

\* an album of the prior snapshot that the new album map does not hold: logged,
\* archived, and its folder moved to the archive tree
RemovedAlbumOps(latest_data, old_album_id) ==
    LET old_album_info == AlbumInfo(latest_data.albums, old_album_id,
                                    [album_id |-> old_album_id, name |-> "unknown"])
    IN  <<LogOp("content_changes", [type |-> "album_deleted", album_id |-> old_album_id]),
          ArchiveOp("albums", <<old_album_info>>),
          [op |-> "move_album_dir", name |-> old_album_info.name]>>

\* an album that is still there: the media items of its prior list that its new
\* list does not hold are archived, logged, and their files moved
RemovedMediaOps(latest_data, albums, album_media_map, old_album_id) ==
    LET deleted_media == NotIn(latest_data.album_media[old_album_id],
                               album_media_map[old_album_id], MediaId)
        album_name == AlbumInfo(albums, old_album_id, [name |-> ""]).name
    IN  IF deleted_media = <<>> THEN <<>>
        ELSE <<ArchiveOp("media", deleted_media)>> \o
             [i \in 1..Len(deleted_media) |->
                 LogOp("content_changes", [type |-> "media_deleted", album_id |-> old_album_id,
                                           media_id |-> deleted_media[i].media_id])]
             \o
             (IF album_name = "" THEN <<>>
              ELSE [i \in 1..Len(deleted_media) |->
                       [op |-> "move_media", album_name |-> album_name,
                        media_id |-> deleted_media[i].media_id]])

\* step 7 of group_backup: every album of the prior album_media map, in turn
AlbumDiffOps(latest_data, albums, album_media_map) ==
    IF "album_media" \notin latest_data.present THEN <<>>
    ELSE LET old_ids == SortedSeq(DOMAIN latest_data.album_media)
         IN  SeqConcat([i \in 1..Len(old_ids) |->
                 IF old_ids[i] \notin DOMAIN album_media_map
                 THEN RemovedAlbumOps(latest_data, old_ids[i])
                 ELSE RemovedMediaOps(latest_data, albums, album_media_map, old_ids[i])])

\* ------------------------------------------------- the platform API
\* get_group_detail_info, cut down to the essential keys it carries
ApiDetail == {"groupCode", "groupName"}

\* get_group_honor_info
ApiHonors == {"talkative"}

\* get_group_member_list, cut down to the essential keys
ApiMembers(rg) ==
    LET ids == SortedSeq(DOMAIN rg.members)
    IN  [i \in 1..Len(ids) |-> rg.members[ids[i]]]

\* _get_group_notice, cut down to notice_id and text
ApiNotices(rg) ==
    LET ids == SortedSeq(DOMAIN rg.notices)
    IN  [i \in 1..Len(ids) |-> [notice_id |-> ids[i], text |-> rg.notices[ids[i]]]]

\* get_essence_msg_list, cut down to message_id and content
ApiEssence(rg) ==
    LET ids == SortedSeq(rg.essence)
    IN  [i \in 1..Len(ids) |-> [message_id |-> ids[i], content |-> "msg"]]

\* get_qun_album_list, cut down to album_id, name and modify_time
ApiAlbums(rg) ==
    LET ids == SortedSeq(DOMAIN rg.albums)
    IN  [i \in 1..Len(ids) |-> [album_id |-> ids[i], name |-> rg.albums[ids[i]].name,
                                modify_time |-> rg.albums[ids[i]].modify_time]]

\* get_group_album_media_list, cut down to media_id and media_type (0: image)
ApiMedia(rg, album_id) ==
    IF album_id \notin DOMAIN rg.albums THEN <<>>
    ELSE LET ids == SortedSeq(rg.albums[album_id].media)
         IN  [i \in 1..Len(ids) |-> [media_id |-> ids[i], media_type |-> 0]]

\* whether a call can raise in this behaviour
Outcomes(fault) == IF fault \in faults THEN {TRUE, FALSE} ELSE {TRUE}

\* ------------------------------------------------- the capture coroutine
\* a coroutine that is not running
IdleRun ==
    [pc |-> "idle", group_id |-> 0, latest_data |-> EmptyData,
     group_detail |-> {}, members |-> <<>>, notices |-> <<>>, essence |-> <<>>,
     honors |-> {}, albums |-> <<>>, album_media_map |-> <<>>,
     raw_albums |-> <<>>, todo |-> <<>>, timestamp |-> 0, saved |-> 0,
     result |-> "none",
     \* the command the coroutine runs, who sent it, and its _download_file
     \* calls in flight
     cmd |-> "capture", sender |-> <<>>, tasks |-> <<>>,
     \* history of the run, read by no step: the API calls that raised, the
     \* lengths of the log and archive lists when the prior snapshot was
     \* loaded, the snapshot directories the prune step removed and those
     \* whose removal raised
     raised |-> {}, before |-> <<>>, removed |-> {}, unremoved |-> {},
     \* whether the group directory held nothing when the capture loaded
     fresh |-> FALSE,
     \* the albums whose media list was requested, and those whose request raised
     media_calls |-> {}, media_failed |-> {},
     \* group_avatar.png, the archived avatars and the length of content_changes
     \* when the avatar stage compared the temporary file with group_avatar.png
     avatar_was |-> <<>>,
     \* the entries the coroutine added to the log and archive files, each with
     \* the file and the position it was written at
     logged |-> {},
     \* the _download_file calls of its album batches that returned, each with
     \* its file and how the transfer went
     fetched |-> {}]

\* the lengths of the lists of logs/*.json
LogLengths(d) ==
    [member_changes |-> Len(d.member_changes), content_changes |-> Len(d.content_changes),
     notices |-> Len(d.deleted_items.notices), essence |-> Len(d.deleted_items.essence),
     albums |-> Len(d.deleted_items.albums), media |-> Len(d.deleted_items.media)]

\* positions inside a synchronous section: no other coroutine runs there
SyncPcs == {"album_loop", "prepare", "save", "prune"}

Busy(r) == run[r].todo # <<>> \/ run[r].pc \in SyncPcs

\* coroutine r is the one the event loop runs next
CanStep(r) == run[r].todo = <<>> /\ \A r2 \in Runs \ {r} : ~Busy(r2)

Unchanged == UNCHANGED <<clock, remote, faults, admin_users, senders, issued, changed, permits, asked>>

\* the except clause yielding nothing
FailedSilently(rr) == [rr EXCEPT !.pc = "done"]

\* the except clause of group_backup: the failure message is the result
Failed(rr) == [rr EXCEPT !.pc = "done", !.result = "Failed"]

\* the permission check of the capture, delete and export commands: refused
\* is who is no bot administrator and is not listed in admin_users
Denied(event) ==
    ~event.is_admin /\ (admin_users = {} \/ event.user_id \notin admin_users)

\* the permission check of the restore command: refused is who is not
\* listed in admin_users, when that list is not empty
RestoreDenied(event) ==
    admin_users # {} /\ event.user_id \notin admin_users

\* a command that ended with the refusal message, before anything else
Refused(cmd, g, event) ==
    [IdleRun EXCEPT !.cmd = cmd, !.group_id = g, !.sender = event,
                    !.pc = "done", !.result = "Refused"]

\* the command arrives: it is refused, or the start message is yielded
Begin(r, g) ==
    /\ run[r].pc = "idle"
    /\ CanStep(r)
    /\ issued < MaxCaptures
    /\ issued' = issued + 1
    /\ \E event \in senders :
          run' = [run EXCEPT ![r] =
                     IF Denied(event) THEN Refused("capture", g, event)
                     ELSE [IdleRun EXCEPT !.pc = "started", !.group_id = g,
                                          !.sender = event]]
    /\ UNCHANGED <<clock, remote, disk, faults, admin_users, senders, changed, permits, asked>>

\* the prior snapshot is loaded, the group detail is requested
Load(r) ==
    /\ run[r].pc = "started"
    /\ CanStep(r)
    /\ run' = [run EXCEPT ![r].latest_data = GetLatestBackupData(disk[run[r].group_id]),
                          ![r].before = LogLengths(disk[run[r].group_id]),
                          ![r].fresh = (disk[run[r].group_id] = EmptyDir),
                          ![r].pc = "detail"]
    /\ UNCHANGED <<disk>>
    /\ Unchanged

\* the files of a folder of albums/, none when the folder is missing
AlbumFiles(d, name) == IF name \in DOMAIN d.albums THEN d.albums[name] ELSE {}

\* ------------------------------------------------- _download_file: the call
\* the bytes at a path of a group directory: "none" when there is no file,
\* "torn" for what a write that broke off left, else the picture stored
Bytes(d, path) ==
    IF path.kind = "temp_avatar" THEN d.temp_avatar
    ELSE IF path.file \notin AlbumFiles(d, path.album) THEN "none"
    ELSE IF <<path.album, path.file>> \in d.torn THEN "torn"
    ELSE "full"

\* save_path.parent.mkdir(parents=True, exist_ok=True); open(save_path, "wb"); f.write(content)
WriteBytes(d, path, content) ==
    IF path.kind = "temp_avatar" THEN [d EXCEPT !.temp_avatar = content]
    ELSE [d EXCEPT !.albums = (path.album :> (AlbumFiles(d, path.album) \cup {path.file})) @@ @,
                   !.torn = IF content = "torn" THEN @ \cup {<<path.album, path.file>>}
                            ELSE @ \ {<<path.album, path.file>>}]

\* a call of _download_file that has not run yet; pre, called and outcome are
\* history: the bytes at save_path when the call began, whether the request
\* was sent, and how the transfer went
NewTask(path, overwrite) ==
    [path |-> path, overwrite |-> overwrite, st |-> "new", result |-> FALSE,
     pre |-> "none", called |-> FALSE, outcome |-> "none"]

\* the call without its test for an existing file
StartedWithoutSkip(t, d, free) ==
    [t EXCEPT !.st = IF free > 0 THEN "transfer" ELSE "waiting",
              !.pre = Bytes(d, t.path)]

\* the call up to its first suspension: it returns True at once when the
\* file exists and overwrite is off; else it takes a permit, or waits for one
Started(t, d, free) ==
    IF ~t.overwrite /\ Bytes(d, t.path) # "none"
    THEN [t EXCEPT !.st = "done", !.result = TRUE, !.pre = Bytes(d, t.path),
                   !.outcome = "skipped"]
    ELSE [t EXCEPT !.st = IF free > 0 THEN "transfer" ELSE "waiting",
                   !.pre = Bytes(d, t.path)]

\* the permits left after a call began
PermitsAfter(t, free) == IF t.st = "transfer" THEN free - 1 ELSE free

\* 1. group detail: a failure is logged and leaves the detail empty; 1.1 the
\* avatar download to temp_avatar.png, overwriting, then runs up to its request
FetchDetail(r) ==
    /\ run[r].pc = "detail"
    /\ CanStep(r)
    /\ \E ok \in Outcomes("detail") :
          LET t == Started(NewTask([kind |-> "temp_avatar"], TRUE),
                           disk[run[r].group_id], permits)
          IN  /\ run' = [run EXCEPT ![r].group_detail = IF ok THEN ApiDetail ELSE {},
                                    ![r].raised = IF ok THEN @ ELSE @ \cup {"detail"},
                                    ![r].tasks = <<t>>,
                                    ![r].pc = "avatar_wait"]
              /\ permits' = PermitsAfter(t, permits)
    /\ UNCHANGED <<clock, remote, disk, faults, admin_users, senders, issued, changed, asked>>

\* 2. member list: the call is not guarded, a failure ends the run
FetchMembers(r) ==
    /\ run[r].pc = "members"
    /\ CanStep(r)
    /\ \E ok \in Outcomes("members") :
          LET members == ApiMembers(remote[run[r].group_id])
          IN  run' = [run EXCEPT ![r] =
                  IF ok THEN [run[r] EXCEPT !.members = members,
                                       !.todo = MemberDiffOps(run[r].latest_data, members),
                                       !.pc = "notices"]
                  ELSE Failed([run[r] EXCEPT !.raised = @ \cup {"members"}])]
    /\ UNCHANGED <<disk>>
    /\ Unchanged

\* 3. notices: a failure is logged, the list stays empty and nothing is compared
FetchNotices(r) ==
    /\ run[r].pc = "notices"
    /\ CanStep(r)
    /\ \E ok \in Outcomes("notices") :
          LET notices == ApiNotices(remote[run[r].group_id])
          IN  run' = [run EXCEPT ![r] =
                  IF ok THEN [run[r] EXCEPT !.notices = notices,
                                       !.todo = NoticeDiffOps(run[r].latest_data, notices),
                                       !.pc = "essence"]
                  ELSE [run[r] EXCEPT !.raised = @ \cup {"notices"}, !.pc = "essence"]]
    /\ UNCHANGED <<disk>>
    /\ Unchanged

\* 4. essence messages: as for notices
FetchEssence(r) ==
    /\ run[r].pc = "essence"
    /\ CanStep(r)
    /\ \E ok \in Outcomes("essence") :
          LET essence == ApiEssence(remote[run[r].group_id])
          IN  run' = [run EXCEPT ![r] =
                  IF ok THEN [run[r] EXCEPT !.essence = essence,
                                       !.todo = EssenceDiffOps(run[r].latest_data, essence),
                                       !.pc = "honors"]
                  ELSE [run[r] EXCEPT !.raised = @ \cup {"essence"}, !.pc = "honors"]]
    /\ UNCHANGED <<disk>>
    /\ Unchanged

\* 5. honors: a failure is logged and leaves the map empty
FetchHonors(r) ==
    /\ run[r].pc = "honors"
    /\ CanStep(r)
    /\ \E ok \in Outcomes("honors") :
          run' = [run EXCEPT ![r].honors = IF ok THEN ApiHonors ELSE {},
                             ![r].raised = IF ok THEN @ ELSE @ \cup {"honors"},
                             ![r].pc = "albums"]
    /\ UNCHANGED <<disk>>
    /\ Unchanged

\* the log and archive files of a group directory, by name
LogFiles(d) ==
    [member_changes |-> d.member_changes, content_changes |-> d.content_changes,
     notices |-> d.deleted_items.notices, essence |-> d.deleted_items.essence,
     albums |-> d.deleted_items.albums, media |-> d.deleted_items.media]

\* the entries directory e holds past the end of the files of directory d
Appended(d, e) ==
    UNION {{[file |-> f, at |-> i, entry |-> LogFiles(e)[f][i]] :
               i \in (Len(LogFiles(d)[f]) + 1)..Len(LogFiles(e)[f])} :
           f \in DOMAIN LogFiles(d)}

\* one queued effect of the running synchronous section
DoEffect(r) ==
    /\ run[r].todo # <<>>
    /\ disk' = [disk EXCEPT ![run[r].group_id] = ApplyOp(@, clock, Head(run[r].todo))]
    /\ run' = [run EXCEPT ![r].todo = Tail(@),
                          ![r].logged = @ \cup Appended(disk[run[r].group_id],
                                                        disk'[run[r].group_id])]
    /\ Unchanged

\* ------------------------------------------------- _backup_albums
\* the prior media list of an album, read only when the prior snapshot holds
\* both albums and album_media
OldMediaList(latest_data, album_id) ==
    IF /\ "albums" \in latest_data.present
       /\ "album_media" \in latest_data.present
       /\ album_id \in DOMAIN latest_data.album_media
    THEN latest_data.album_media[album_id]
    ELSE <<>>

\* the staleness test forgotten: every album counts as updated
IsAlbumUpdatedAlways(latest_data, album) == TRUE

\* is_album_updated: false only when the prior snapshot holds the album with
\* the same modify_time and a prior media list that is not empty
IsAlbumUpdated(latest_data, album) ==
    ~ /\ "albums" \in latest_data.present
      /\ "album_media" \in latest_data.present
      /\ \E i \in 1..Len(latest_data.albums) : latest_data.albums[i].album_id = album.album_id
      /\ AlbumInfo(latest_data.albums, album.album_id, album).modify_time = album.modify_time
      /\ OldMediaList(latest_data, album.album_id) # <<>>

\* old_albums = {a["album_id"]: a.get("name") ...}: the rename step runs when
\* the album id is known under another name
RenameOps(latest_data, album) ==
    LET known == {i \in 1..Len(latest_data.albums) :
                     latest_data.albums[i].album_id = album.album_id}
    IN  IF "albums" \in latest_data.present /\ known # {}
           /\ latest_data.albums[Max(known)].name # album.name
        THEN <<[op |-> "rename_album", album_id |-> album.album_id,
                old_name |-> latest_data.albums[Max(known)].name, new_name |-> album.name]>>
        ELSE <<>>

\* 6. the album list: a failure is logged and leaves both results empty
FetchAlbumList(r) ==
    /\ run[r].pc = "albums"
    /\ CanStep(r)
    /\ \E ok \in Outcomes("albums") :
          run' = [run EXCEPT ![r].raw_albums =
                                 IF ok THEN ApiAlbums(remote[run[r].group_id]) ELSE <<>>,
                             ![r].raised = IF ok THEN @ ELSE @ \cup {"albums"},
                             ![r].pc = "album_loop"]
    /\ UNCHANGED <<disk>>
    /\ Unchanged

\* the album loop up to its next await; after the last album, an export goes
\* on to pack and upload, which writes no file of the group directory, and a
\* capture goes on to step 7, which compares the prior album_media map with
\* the new one
NextAlbum(r) ==
    /\ run[r].pc = "album_loop"
    /\ run[r].todo = <<>>
    /\ LET rr == run[r]
           album == Head(rr.raw_albums)
       IN  run' = [run EXCEPT ![r] =
               IF rr.raw_albums = <<>> /\ rr.cmd = "export"
               THEN [rr EXCEPT !.pc = "done", !.result = "Exported"]
               ELSE IF rr.raw_albums = <<>>
               THEN [rr EXCEPT !.todo = AlbumDiffOps(rr.latest_data, rr.albums,
                                                     rr.album_media_map),
                               !.pc = "prepare"]
               ELSE IF IsAlbumUpdated(rr.latest_data, album)
               THEN [rr EXCEPT !.albums = Append(@, album),
                               !.todo = RenameOps(rr.latest_data, album),
                               !.pc = "media"]
               ELSE [rr EXCEPT !.albums = Append(@, album),
                               !.album_media_map =
                                   (album.album_id :> OldMediaList(rr.latest_data, album.album_id)) @@ @,
                               !.todo = RenameOps(rr.latest_data, album)
                                        \o <<[op |-> "mkdir_album", name |-> album.name]>>,
                               !.raw_albums = Tail(@)]]
    /\ UNCHANGED <<disk>>
    /\ Unchanged

\* the media list of the current album: a failure falls back to the prior list
FetchMediaList(r) ==
    /\ run[r].pc = "media"
    /\ CanStep(r)
    /\ \E ok \in Outcomes("media") :
          LET rr == run[r]
              album == Head(rr.raw_albums)
              media_list == IF ok THEN ApiMedia(remote[rr.group_id], album.album_id)
                            ELSE OldMediaList(rr.latest_data, album.album_id)
              mapped == [rr EXCEPT !.album_media_map = (album.album_id :> media_list) @@ @,
                                   !.raised = IF ok THEN @ ELSE @ \cup {"media"},
                                   !.media_calls = @ \cup {album.album_id},
                                   !.media_failed = IF ok THEN @ ELSE @ \cup {album.album_id}]
          IN  run' = [run EXCEPT ![r] =
                  IF media_list # <<>>
                  THEN [mapped EXCEPT !.todo = <<[op |-> "mkdir_album", name |-> album.name]>>,
                                      !.pc = "download"]
                  ELSE [mapped EXCEPT !.raw_albums = Tail(@), !.pc = "album_loop"]]
    /\ UNCHANGED <<disk>>
    /\ Unchanged

\* the file a media item is saved as
MediaFile(m) == <<m.media_id, IF m.media_type = 1 THEN ".mp4" ELSE ".jpg">>

\* ------------------------------------------------- _download_file: the transfer
\* the body of the response: the group's avatar, or the media item
ResponseBody(rg, path) == IF path.kind = "temp_avatar" THEN rg.avatar ELSE "full"

\* how a transfer can go: status 200, another status, an exception before
\* the file is opened, an exception while the file is written
TransferOutcomes ==
    {"ok"} \cup (IF "download" \in faults THEN {"status", "error"} ELSE {})
           \cup (IF "torn" \in faults THEN {"torn"} ELSE {})

\* the call from the response to its return: with overwrite on, a body with
\* the md5 of the file returns False and writes nothing; a write that raises
\* leaves what it wrote and the call returns False
Finished(t, d, body, outcome) ==
    LET same == t.overwrite /\ Bytes(d, t.path) # "none" /\ Bytes(d, t.path) = body
        done == [t EXCEPT !.st = "done", !.called = TRUE, !.outcome = outcome]
    IN  IF outcome \in {"status", "error"} \/ same
        THEN [task |-> [done EXCEPT !.result = FALSE], dir |-> d]
        ELSE IF outcome = "torn"
        THEN [task |-> [done EXCEPT !.result = FALSE], dir |-> WriteBytes(d, t.path, "torn")]
        ELSE [task |-> [done EXCEPT !.result = TRUE], dir |-> WriteBytes(d, t.path, body)]

\* the avatar stage treating every fetched avatar as a new one
AvatarOpsWithoutCompare(d) ==
    IF d.temp_avatar = "none" THEN <<>>
    ELSE (IF d.avatar # "none" THEN <<[op |-> "archive_avatar"]>> ELSE <<>>)
         \o <<[op |-> "apply_avatar"]>>

\* what follows the avatar download: without a temporary file nothing; a
\* temporary file with the md5 of group_avatar.png is removed; else the old
\* avatar, if any, is archived and logged and the temporary file takes its place
AvatarOps(d) ==
    IF d.temp_avatar = "none" THEN <<>>
    ELSE IF d.avatar # "none" /\ d.avatar = d.temp_avatar
    THEN <<[op |-> "unlink_temp_avatar"]>>
    ELSE (IF d.avatar # "none" THEN <<[op |-> "archive_avatar"]>> ELSE <<>>)
         \o <<[op |-> "apply_avatar"]>>

\* the coroutine after its avatar download returned: the call was awaited
\* directly, so the rest of the avatar stage follows in the same synchronous
\* section; avatar_was keeps what the stage found
AvatarApplied(rr, d, body) ==
    [rr EXCEPT !.tasks = <<>>,
               !.todo = AvatarOps(d),
               !.avatar_was = [avatar |-> d.avatar, temp_avatar |-> d.temp_avatar,
                               archived_avatars |-> d.archived_avatars,
                               fetched |-> rr.tasks[1].outcome, body |-> body,
                               content_changes |-> Len(d.content_changes)],
               !.pc = "members"]

\* the permit given back on success only
ReleasedOnSuccess(free, outcome) == IF outcome = "ok" THEN free + 1 ELSE free

\* leaving async with self.download_semaphore, however the transfer went
Released(free, outcome) == free + 1

\* a download task runs up to its request: for the first time, or woken
\* out of async with self.download_semaphore by a freed permit
FetchStart(r, i) ==
    /\ i \in 1..Len(run[r].tasks)
    /\ run[r].tasks[i].st \in {"new", "waiting"}
    /\ run[r].tasks[i].st = "waiting" => permits > 0
    /\ CanStep(r)
    /\ LET t == IF run[r].tasks[i].st = "new"
                THEN Started(run[r].tasks[i], disk[run[r].group_id], permits)
                ELSE [run[r].tasks[i] EXCEPT !.st = "transfer"]
       IN  /\ run' = [run EXCEPT ![r].tasks[i] = t]
           /\ permits' = PermitsAfter(t, permits)
    /\ UNCHANGED <<clock, remote, disk, faults, admin_users, senders, issued, changed, asked>>

\* the response arrives or the request fails; the permit is given back; a
\* download that was awaited directly goes on into its caller
FetchFinish(r, i) ==
    /\ i \in 1..Len(run[r].tasks)
    /\ run[r].tasks[i].st = "transfer"
    /\ CanStep(r)
    /\ \E outcome \in TransferOutcomes :
          LET g == run[r].group_id
              t == run[r].tasks[i]
              fin == Finished(t, disk[g], ResponseBody(remote[g], t.path), outcome)
              done == [run[r] EXCEPT !.tasks[i] = fin.task]
          IN  /\ run' = [run EXCEPT ![r] =
                             IF t.path.kind = "temp_avatar"
                             THEN AvatarApplied(done, fin.dir, ResponseBody(remote[g], t.path))
                             ELSE done]
              /\ disk' = [disk EXCEPT ![g] = fin.dir]
              /\ permits' = Released(permits, outcome)
    /\ UNCHANGED <<clock, remote, faults, admin_users, senders, issued, changed, asked>>

\* every download of the coroutine has returned
AllDone(tasks) == \A i \in 1..Len(tasks) : tasks[i].st = "done"

\* download_tasks of the current album: one _download_file call per media item
StartBatch(r) ==
    /\ run[r].pc = "download"
    /\ CanStep(r)
    /\ LET rr == run[r]
           album == Head(rr.raw_albums)
           media_list == rr.album_media_map[album.album_id]
       IN  run' = [run EXCEPT ![r].tasks =
                      [i \in 1..Len(media_list) |->
                          NewTask([kind |-> "media", album |-> album.name,
                                   file |-> MediaFile(media_list[i])], FALSE)],
                              ![r].pc = "gather"]
    /\ UNCHANGED <<disk>>
    /\ Unchanged

\* the batch left as soon as one of its downloads has returned
JoinBatchEarly(r) ==
    /\ run[r].pc = "gather"
    /\ \E i \in 1..Len(run[r].tasks) : run[r].tasks[i].st = "done"
    /\ \A i \in 1..Len(run[r].tasks) : run[r].tasks[i].st \in {"new", "done"}
    /\ CanStep(r)
    /\ run' = [run EXCEPT ![r].tasks = <<>>, ![r].raw_albums = Tail(@),
                          ![r].fetched = @ \cup {[album |-> run[r].tasks[i].path.album,
                                                   file |-> run[r].tasks[i].path.file,
                                                   outcome |-> run[r].tasks[i].outcome] :
                                                  i \in 1..Len(run[r].tasks)},
                          ![r].pc = "album_loop"]
    /\ UNCHANGED <<disk>>
    /\ Unchanged

\* await asyncio.gather(*download_tasks) returns; the loop goes to the next album
JoinBatch(r) ==
    /\ run[r].pc = "gather"
    /\ AllDone(run[r].tasks)
    /\ CanStep(r)
    /\ run' = [run EXCEPT ![r].tasks = <<>>, ![r].raw_albums = Tail(@),
                          ![r].fetched = @ \cup {[album |-> run[r].tasks[i].path.album,
                                                   file |-> run[r].tasks[i].path.file,
                                                   outcome |-> run[r].tasks[i].outcome] :
                                                  i \in 1..Len(run[r].tasks)},
                          ![r].pc = "album_loop"]
    /\ UNCHANGED <<disk>>
    /\ Unchanged

\* ------------------------------------------------- the snapshot write
\* data_to_save
DataToSave(rr) ==
    [group_detail |-> rr.group_detail, members |-> rr.members, notices |-> rr.notices,
     essence |-> rr.essence, honors |-> rr.honors, albums |-> rr.albums,
     album_media |-> rr.album_media_map]

\* the write step deleting the other snapshot directories before it writes
PrepareDeletingFirst(r) ==
    /\ run[r].pc = "prepare"
    /\ run[r].todo = <<>>
    /\ disk' = [disk EXCEPT ![run[r].group_id].snapshots =
                   IF clock \in DOMAIN @ THEN [n \in {clock} |-> @[n]] ELSE (clock :> EmptyData)]
    /\ run' = [run EXCEPT ![r].timestamp = clock, ![r].pc = "save"]
    /\ Unchanged

\* backup_path.mkdir(parents=True, exist_ok=True), named by the current second
Prepare(r) ==
    /\ run[r].pc = "prepare"
    /\ run[r].todo = <<>>
    /\ disk' = [disk EXCEPT ![run[r].group_id].snapshots =
                   IF clock \in DOMAIN @ THEN @ ELSE (clock :> EmptyData) @@ @]
    /\ run' = [run EXCEPT ![r].timestamp = clock, ![r].pc = "save"]
    /\ Unchanged

\* a snapshot directory after one more file of data_to_save was written to it
WithFile(snapshot, key, val) ==
    [snapshot EXCEPT ![key] = val, !.present = @ \cup {key}, !.torn = @ \ {key}]

\* the next file of the snapshot is written, or the write raises: open raises
\* and there is no new file, or json.dump raises and leaves a file that was
\* created or truncated and holds no valid JSON
SaveFile(r) ==
    /\ run[r].pc = "save"
    /\ LET rr == run[r]
           key == FileKeys[rr.saved + 1]
       IN  \E how \in {"ok"} \cup (IF "write" \in faults THEN {"error"} ELSE {})
                            \cup (IF "dump" \in faults THEN {"torn"} ELSE {}) :
              IF how = "ok"
              THEN /\ disk' = [disk EXCEPT ![rr.group_id].snapshots[rr.timestamp] =
                                  WithFile(@, key, DataToSave(rr)[key])]
                   /\ run' = [run EXCEPT ![r].saved = @ + 1,
                                         ![r].pc = IF rr.saved + 1 = Len(FileKeys)
                                                   THEN "prune" ELSE "save"]
              ELSE /\ disk' = IF how = "torn"
                              THEN [disk EXCEPT ![rr.group_id].snapshots[rr.timestamp] =
                                       [@ EXCEPT !.present = @ \ {key}, !.torn = @ \cup {key}]]
                              ELSE disk
                   /\ run' = [run EXCEPT ![r] = Failed(@)]
    /\ Unchanged

\* the prune step sparing the oldest directory
OldBackupsButOldest(names, timestamp) == {n \in names : n # timestamp /\ n # Min(names)}

\* the directories the prune step tries to remove: every timestamp directory
\* whose name is not the new one
OldBackups(names, timestamp) == {n \in names : n # timestamp}

\* shutil.rmtree on each old directory; a removal that raises is logged and
\* skipped, and the success message is yielded all the same
Prune(r) ==
    /\ run[r].pc = "prune"
    /\ LET rr == run[r]
           old == OldBackups(SnapshotNames(disk[rr.group_id]), rr.timestamp)
       IN  \E gone \in (IF "rmtree" \in faults THEN SUBSET old ELSE {old}) :
               /\ disk' = [disk EXCEPT ![rr.group_id].snapshots =
                              [n \in DOMAIN @ \ gone |-> @[n]]]
               /\ run' = [run EXCEPT ![r].removed = gone, ![r].unremoved = old \ gone,
                                     ![r].pc = "done", ![r].result = "Success"]
    /\ Unchanged

\* the generator is exhausted
Return(r) ==
    /\ run[r].pc = "done"
    /\ CanStep(r)
    /\ run' = [run EXCEPT ![r] = IdleRun]
    /\ UNCHANGED <<disk>>
    /\ Unchanged

\* the steps of coroutine r once its command has begun
Steps(r) ==
    \/ Load(r)
    \/ FetchDetail(r)
    \/ FetchMembers(r)
    \/ FetchNotices(r)
    \/ FetchEssence(r)
    \/ FetchHonors(r)
    \/ FetchAlbumList(r)
    \/ NextAlbum(r)
    \/ FetchMediaList(r)
    \/ StartBatch(r)
    \/ \E i \in 1..Len(run[r].tasks) : FetchStart(r, i)
    \/ \E i \in 1..Len(run[r].tasks) : FetchFinish(r, i)
    \/ JoinBatch(r)
    \/ DoEffect(r)
    \/ Prepare(r)
    \/ SaveFile(r)
    \/ Prune(r)
    \/ Return(r)

\* a capture of group g by coroutine r
Capture(r, g) == Begin(r, g) \/ Steps(r)

\* ------------------------------------------------- group_export, group_restore
\* the export command arrives: it is refused, or the prior snapshot is
\* loaded and the start message is yielded; when albums are asked for,
\* _backup_albums runs first
BeginExport(r, g) ==
    /\ run[r].pc = "idle"
    /\ CanStep(r)
    /\ asked < MaxQueries
    /\ asked' = asked + 1
    /\ \E event \in senders : \E with_albums \in BOOLEAN :
          run' = [run EXCEPT ![r] =
                     IF Denied(event) THEN Refused("export", g, event)
                     ELSE [IdleRun EXCEPT !.cmd = "export", !.group_id = g,
                                          !.sender = event,
                                          !.latest_data = GetLatestBackupData(disk[g]),
                                          !.before = LogLengths(disk[g]),
                                          !.pc = IF with_albums THEN "albums" ELSE "done",
                                          !.result = IF with_albums THEN "none" ELSE "Exported"]]
    /\ UNCHANGED <<clock, remote, disk, faults, admin_users, senders, issued, changed, permits>>

\* what the restore makes of the target group rg: group_avatar.png of the
\* source directory, when there is one, becomes its avatar; every member of
\* the backed-up list who is in the target group gets the card of the
\* record, the special title of the record when the record has the key
\* special_title, and is made or unmade administrator as the record's role
\* says unless that role is owner.  The group name and the upload of album
\* images are left out
Restored(rg, latest_data, d) ==
    [rg EXCEPT
        !.avatar = IF d.avatar = "none" THEN @ ELSE d.avatar,
        !.members =
            [u \in DOMAIN @ |->
                LET hits == {i \in 1..Len(latest_data.members) :
                                latest_data.members[i].user_id = u}
                    bm == latest_data.members[Max(hits)]
                IN  IF hits = {} THEN @[u]
                    ELSE [@[u] EXCEPT
                             !.card = IF "card" \in DOMAIN bm THEN bm.card ELSE @,
                             !.title = IF "special_title" \in DOMAIN bm
                                       THEN bm.special_title ELSE @,
                             !.role = IF "role" \in DOMAIN bm /\ bm.role # "owner"
                                      THEN (IF bm.role = "admin" THEN "admin" ELSE "member")
                                      ELSE @]]]

\* the restore command, from the backup of group src to group g: it is
\* refused, or it stops without a prior snapshot, or it sets the target
\* group from the backup; no file is written
Restore(r, g, src) ==
    /\ run[r].pc = "idle"
    /\ CanStep(r)
    /\ asked < MaxQueries
    /\ asked' = asked + 1
    /\ \E event \in senders :
          LET latest_data == GetLatestBackupData(disk[src])
              result == IF RestoreDenied(event) THEN "Refused"
                        ELSE IF latest_data.present = {} THEN "NotFound"
                        ELSE "Restored"
          IN  /\ remote' = IF result = "Restored"
                           THEN [remote EXCEPT ![g] = Restored(@, latest_data, disk[src])]
                           ELSE remote
              /\ run' = [run EXCEPT ![r] =
                            [IdleRun EXCEPT !.cmd = "restore", !.group_id = g,
                                            !.sender = event, !.latest_data = latest_data,
                                            !.pc = "done", !.result = result]]
    /\ UNCHANGED <<clock, disk, faults, admin_users, senders, issued, changed, permits>>

\* the delete command removing the directory of every group
DeleteGroupBackupAll(r, g) ==
    /\ run[r].pc = "idle"
    /\ CanStep(r)
    /\ asked < MaxQueries
    /\ asked' = asked + 1
    /\ disk' = [h \in Groups |-> EmptyDir]
    /\ run' = [run EXCEPT ![r] = [IdleRun EXCEPT !.cmd = "delete", !.group_id = g,
                                                 !.pc = "done", !.result = "Deleted"]]
    /\ UNCHANGED <<clock, remote, faults, admin_users, senders, issued, changed, permits>>

\* the delete command removing the timestamp directories only
DeleteGroupBackupSnapshots(r, g) ==
    /\ run[r].pc = "idle"
    /\ CanStep(r)
    /\ asked < MaxQueries
    /\ asked' = asked + 1
    /\ disk' = [disk EXCEPT ![g].snapshots = <<>>]
    /\ run' = [run EXCEPT ![r] = [IdleRun EXCEPT !.cmd = "delete", !.group_id = g,
                                                 !.pc = "done", !.result = "Deleted"]]
    /\ UNCHANGED <<clock, remote, faults, admin_users, senders, issued, changed, permits>>

\* delete_group_backup for group g, which has no await: it is refused, or without a group
\* directory it answers that nothing was found; else shutil.rmtree removes
\* the whole directory, or raises after it removed nothing or a part (here
\* the timestamp directories), and the failure message is the result
DeleteGroupBackup(r, g) ==
    /\ run[r].pc = "idle"
    /\ CanStep(r)
    /\ asked < MaxQueries
    /\ asked' = asked + 1
    /\ \E event \in senders : \E ok \in Outcomes("rmtree") :
       \E left \in {disk[g], [disk[g] EXCEPT !.snapshots = <<>>]} :
          IF Denied(event)
          THEN /\ disk' = disk
               /\ run' = [run EXCEPT ![r] = Refused("delete", g, event)]
          ELSE /\ disk' = [disk EXCEPT ![g] = IF ok THEN EmptyDir ELSE left]
               /\ run' = [run EXCEPT ![r] =
                             [IdleRun EXCEPT !.cmd = "delete", !.group_id = g,
                                             !.sender = event, !.pc = "done",
                                             !.result = IF disk[g] = EmptyDir THEN "NotFound"
                                                        ELSE IF ok THEN "Deleted"
                                                        ELSE "DeleteFailed"]]
    /\ UNCHANGED <<clock, remote, faults, admin_users, senders, issued, changed, permits>>

\* ------------------------------------------------- the environment
\* a second passes
Tick ==
    /\ clock < MaxClock
    /\ clock' = clock + 1
    /\ UNCHANGED <<remote, disk, run, faults, admin_users, senders, issued, changed, permits, asked>>

\* the remote group g becomes rg; a synchronous section reads the remote group
\* nowhere, so a change during one is a change right after it
Remote(g, rg) ==
    /\ \A r \in Runs : ~Busy(r)
    /\ changed < MaxRemoteChanges
    /\ changed' = changed + 1
    /\ remote' = [remote EXCEPT ![g] = rg]
    /\ UNCHANGED <<clock, disk, run, faults, admin_users, senders, issued, permits, asked>>

\* a member as get_group_member_list reports them, cut down to user_id,
\* nickname, card, role and title; a member without a title has title ""
Member(u) == [user_id |-> u, nickname |-> "nick", card |-> "card", role |-> "member", title |-> ""]

RemoteJoin(g) ==
    \E u \in UserIds \ DOMAIN remote[g].members :
        Remote(g, [remote[g] EXCEPT !.members = (u :> Member(u)) @@ @])

RemoteLeave(g) ==
    \E u \in DOMAIN remote[g].members :
        Remote(g, [remote[g] EXCEPT !.members = Without(@, u)])

\* a member gets another card, becomes or stops being an administrator, or
\* gets or loses a title
RemoteEditMember(g) ==
    \E u \in DOMAIN remote[g].members :
        \/ Remote(g, [remote[g] EXCEPT !.members[u].card = IF @ = "card" THEN "card2" ELSE "card"])
        \/ Remote(g, [remote[g] EXCEPT !.members[u].role = IF @ = "member" THEN "admin" ELSE "member"])
        \/ Remote(g, [remote[g] EXCEPT !.members[u].title = IF @ = "" THEN "title" ELSE ""])

RemotePostNotice(g) ==
    \E n \in NoticeIds \ DOMAIN remote[g].notices : \E t \in Texts :
        Remote(g, [remote[g] EXCEPT !.notices = (n :> t) @@ @])

RemoteEditNotice(g) ==
    \E n \in DOMAIN remote[g].notices : \E t \in Texts \ {remote[g].notices[n]} :
        Remote(g, [remote[g] EXCEPT !.notices[n] = t])

RemoteDeleteNotice(g) ==
    \E n \in DOMAIN remote[g].notices :
        Remote(g, [remote[g] EXCEPT !.notices = Without(@, n)])

RemoteSetEssence(g) ==
    \E m \in MessageIds \ remote[g].essence :
        Remote(g, [remote[g] EXCEPT !.essence = @ \cup {m}])

RemoteUnsetEssence(g) ==
    \E m \in remote[g].essence :
        Remote(g, [remote[g] EXCEPT !.essence = @ \ {m}])

RemoteCreateAlbum(g) ==
    \E a \in AlbumIds \ DOMAIN remote[g].albums : \E name \in AlbumNames :
        Remote(g, [remote[g] EXCEPT !.albums =
                      (a :> [name |-> name, modify_time |-> 1, media |-> {}]) @@ @])

RemoteDeleteAlbum(g) ==
    \E a \in DOMAIN remote[g].albums :
        Remote(g, [remote[g] EXCEPT !.albums = Without(@, a)])

\* the modify_time after one more change of an album
Touched(t) == IF t + 1 \in ModifyTimes THEN t + 1 ELSE t

\* an album gets another name; the platform may or may not count that as a
\* modification of the album
RemoteRenameAlbum(g) ==
    \E a \in DOMAIN remote[g].albums : \E name \in AlbumNames \ {remote[g].albums[a].name} :
        \E t \in {remote[g].albums[a].modify_time, Touched(remote[g].albums[a].modify_time)} :
            Remote(g, [remote[g] EXCEPT !.albums[a].name = name, !.albums[a].modify_time = t])

RemoteUpload(g) ==
    \E a \in DOMAIN remote[g].albums : \E m \in MediaIds \ remote[g].albums[a].media :
        Remote(g, [remote[g] EXCEPT !.albums[a].media = @ \cup {m},
                                    !.albums[a].modify_time = Touched(@)])

RemoteRemoveMedia(g) ==
    \E a \in DOMAIN remote[g].albums : \E m \in remote[g].albums[a].media :
        Remote(g, [remote[g] EXCEPT !.albums[a].media = @ \ {m},
                                    !.albums[a].modify_time = Touched(@)])

RemoteChangeAvatar(g) ==
    \E p \in Avatars \ {remote[g].avatar} :
        Remote(g, [remote[g] EXCEPT !.avatar = p])

\* ------------------------------------------------- specifications
\* the remote group every behaviour starts from: one member, one notice, one
\* essence message, one album holding one image
StartGroup ==
    [members |-> (1 :> Member(1)),
     notices |-> (1 :> "t1"),
     essence |-> {1},
     albums |-> (1 :> [name |-> "a", modify_time |-> 1, media |-> {1}]),
     avatar |-> "p1"]

\* nothing on disk, no coroutine running, and the failures that can happen
InitWith(fs) ==
    /\ clock = 1
    /\ remote = [g \in Groups |-> StartGroup]
    /\ disk = [g \in Groups |-> EmptyDir]
    /\ run = [r \in Runs |-> IdleRun]
    /\ faults = fs
    /\ issued = 0
    /\ changed = 0
    /\ permits = DownloadPermits
    /\ asked = 0
    /\ admin_users = {}
    /\ senders = {[is_admin |-> TRUE, user_id |-> 1]}

\* captures of group 1, one at a time, while members join and leave; the
\* member call, the detail and honor calls or the snapshot writes can fail
Init == \E fs \in {{"write"}, {"members"}, {"detail", "honors"}} : InitWith(fs)

Next ==
    \/ Capture(1, 1)
    \/ Tick
    \/ RemoteJoin(1)
    \/ RemoteLeave(1)

Spec == Init /\ [][Next]_vars

\* overlapping captures of group 1; snapshot writes can fail, or break off
\* and leave a file that does not load, or the removal of an old snapshot
\* directory can fail
InitOverlap == \E fs \in {{"write"}, {"rmtree"}, {"dump"}} : InitWith(fs)

NextOverlap ==
    \/ \E r \in Runs : Capture(r, 1)
    \/ Tick

SpecOverlap == InitOverlap /\ [][NextOverlap]_vars

\* the same, with the event loop running every coroutine that can go on:
\* every awaited call returns or raises, and a coroutine that is ready is
\* resumed
SpecOverlapFair == SpecOverlap /\ \A r \in Runs : WF_vars(Steps(r))

\* captures of group 1, one at a time, while notices are posted, edited and
\* deleted and essence messages are set and unset; the notice and essence
\* calls can fail
InitNotices == \E fs \in {{}, {"notices", "essence"}} : InitWith(fs)

NextNotices ==
    \/ Capture(1, 1)
    \/ Tick
    \/ RemotePostNotice(1)
    \/ RemoteEditNotice(1)
    \/ RemoteDeleteNotice(1)
    \/ RemoteSetEssence(1)
    \/ RemoteUnsetEssence(1)

SpecNotices == InitNotices /\ [][NextNotices]_vars

\* captures of group 1, one at a time, while albums are created, renamed and
\* deleted and media are uploaded and removed; the album calls and the
\* downloads can fail
InitAlbums == \E fs \in {{}, {"albums"}, {"media", "download"}} : InitWith(fs)

NextAlbums ==
    \/ Capture(1, 1)
    \/ Tick
    \/ RemoteCreateAlbum(1)
    \/ RemoteDeleteAlbum(1)
    \/ RemoteRenameAlbum(1)
    \/ RemoteUpload(1)
    \/ RemoteRemoveMedia(1)

SpecAlbums == InitAlbums /\ [][NextAlbums]_vars

\* a remote group with two albums of one name, each holding one image
TwinGroup ==
    [StartGroup EXCEPT !.albums = (1 :> [name |-> "a", modify_time |-> 1, media |-> {1}])
                                  @@ (2 :> [name |-> "a", modify_time |-> 1, media |-> {2}])]

\* captures of group 1, one at a time, whose two albums share the folder
\* albums/a, while albums are deleted and media removed; the media-list call
\* can fail
InitTwins ==
    /\ clock = 1
    /\ remote = [g \in Groups |-> TwinGroup]
    /\ disk = [g \in Groups |-> EmptyDir]
    /\ run = [r \in Runs |-> IdleRun]
    /\ faults = {"media"}
    /\ issued = 0
    /\ changed = 0
    /\ permits = DownloadPermits
    /\ asked = 0
    /\ admin_users = {}
    /\ senders = {[is_admin |-> TRUE, user_id |-> 1]}

NextTwins ==
    \/ Capture(1, 1)
    \/ Tick
    \/ RemoteDeleteAlbum(1)
    \/ RemoteRemoveMedia(1)

SpecTwins == InitTwins /\ [][NextTwins]_vars

\* captures and exports of group 1 that may overlap, and restores, all within
\* one second, while a member leaves, the avatar changes, an album is renamed
\* or loses an image
InitCommands == InitWith({})

NextCommands ==
    \/ \E r \in Runs : Capture(r, 1)
    \/ \E r \in Runs : BeginExport(r, 1)
    \/ \E r \in Runs : Restore(r, 1, 1)
    \/ RemoteLeave(1)
    \/ RemoteChangeAvatar(1)
    \/ RemoteRenameAlbum(1)
    \/ RemoteRemoveMedia(1)

SpecCommands == InitCommands /\ [][NextCommands]_vars

\* the group directory after one successful capture, at second now, of a
\* remote group rg whose downloads all succeeded
CapturedDir(rg, now) ==
    [EmptyDir EXCEPT
        !.snapshots = (now :> [present |-> FileKeySet,
                               torn |-> {},
                               group_detail |-> ApiDetail,
                               members |-> ApiMembers(rg),
                               notices |-> ApiNotices(rg),
                               essence |-> ApiEssence(rg),
                               honors |-> ApiHonors,
                               albums |-> ApiAlbums(rg),
                               album_media |-> [a \in DOMAIN rg.albums |-> ApiMedia(rg, a)]]),
        !.albums = [name \in {rg.albums[a].name : a \in {b \in DOMAIN rg.albums : rg.albums[b].media # {}}} |->
                       UNION {{MediaFile(ApiMedia(rg, a)[i]) : i \in 1..Len(ApiMedia(rg, a))} :
                              a \in {b \in DOMAIN rg.albums : rg.albums[b].name = name}}],
        !.avatar = rg.avatar]

\* two captures of group 1 that may overlap, of a group captured once before,
\* all within one second, while a member leaves, a notice is deleted, an
\* essence message is unset, an image is uploaded or the avatar changes
InitRace ==
    /\ clock = 1
    /\ remote = [g \in Groups |-> StartGroup]
    /\ disk = [g \in Groups |-> CapturedDir(StartGroup, 1)]
    /\ run = [r \in Runs |-> IdleRun]
    /\ faults = {}
    /\ issued = 0
    /\ changed = 0
    /\ permits = DownloadPermits
    /\ asked = 0
    /\ admin_users = {}
    /\ senders = {[is_admin |-> TRUE, user_id |-> 1]}

NextRace ==
    \/ \E r \in Runs : Capture(r, 1)
    \/ RemoteLeave(1)
    \/ RemoteDeleteNotice(1)
    \/ RemoteUnsetEssence(1)
    \/ RemoteUpload(1)
    \/ RemoteChangeAvatar(1)

SpecRace == InitRace /\ [][NextRace]_vars

\* captures of group 1, one at a time, of a group captured once before, and
\* restores of it from its own backup, while members join, leave and get
\* another card, role or title and an image is uploaded
NextMembers ==
    \/ Capture(1, 1)
    \/ \E r \in Runs : Restore(r, 1, 1)
    \/ Tick
    \/ RemoteJoin(1)
    \/ RemoteLeave(1)
    \/ RemoteEditMember(1)
    \/ RemoteUpload(1)

SpecMembers == InitRace /\ [][NextMembers]_vars

\* captures of group 1 and of group 2 that may overlap, and a delete command
\* for either group, of two groups captured once before, all within one
\* second, while a member
\* leaves group 1 and an album of group 2 is deleted; the removal of a
\* directory can fail
InitGroups ==
    /\ clock = 1
    /\ remote = [g \in Groups |-> StartGroup]
    /\ disk = [g \in Groups |-> CapturedDir(StartGroup, 1)]
    /\ run = [r \in Runs |-> IdleRun]
    /\ faults \in {{}, {"rmtree"}}
    /\ issued = 0
    /\ changed = 0
    /\ permits = DownloadPermits
    /\ asked = 0
    /\ admin_users = {}
    /\ senders = {[is_admin |-> TRUE, user_id |-> 1]}

NextGroups ==
    \/ \E g \in Groups : Capture(g, g)
    \/ \E r \in Runs, g \in Groups : DeleteGroupBackup(r, g)
    \/ RemoteLeave(1)
    \/ RemoteDeleteAlbum(2)

SpecGroups == InitGroups /\ [][NextGroups]_vars

\* captures of group 1, one at a time and within one second, of a group
\* with the albums "a" and "b" that was captured once before, while albums
\* are renamed and deleted and images are uploaded and removed
InitFolders ==
    LET rg == [StartGroup EXCEPT !.albums =
                  (1 :> [name |-> "a", modify_time |-> 1, media |-> {1}])
                  @@ (2 :> [name |-> "b", modify_time |-> 1, media |-> {2}])]
    IN  /\ clock = 1
        /\ remote = [g \in Groups |-> rg]
        /\ disk = [g \in Groups |-> CapturedDir(rg, 1)]
        /\ run = [r \in Runs |-> IdleRun]
        /\ faults = {}
        /\ issued = 0
        /\ changed = 0
        /\ permits = DownloadPermits
        /\ asked = 0
        /\ admin_users = {}
        /\ senders = {[is_admin |-> TRUE, user_id |-> 1]}

NextFolders ==
    \/ Capture(1, 1)
    \/ RemoteRenameAlbum(1)
    \/ RemoteDeleteAlbum(1)
    \/ RemoteUpload(1)
    \/ RemoteRemoveMedia(1)

SpecFolders == InitFolders /\ [][NextFolders]_vars

\* captures of group 1, one at a time, while notices are posted and none is
\* edited or deleted and images are uploaded; the group was captured when it
\* had no notice and again after notice 1 was posted, which the second of
\* the two captures logged; the notice call can fail
InitReposts ==
    /\ clock = 1
    /\ remote = [g \in Groups |-> StartGroup]
    /\ disk = [g \in Groups |->
                 AppendLog(CapturedDir(StartGroup, 1), 1, "content_changes",
                           [type |-> "notice_added", notice_id |-> 1, text |-> "t1"])]
    /\ run = [r \in Runs |-> IdleRun]
    /\ faults = {"notices"}
    /\ issued = 0
    /\ changed = 0
    /\ permits = DownloadPermits
    /\ asked = 0
    /\ admin_users = {}
    /\ senders = {[is_admin |-> TRUE, user_id |-> 1]}

NextReposts ==
    \/ Capture(1, 1)
    \/ Tick
    \/ RemotePostNotice(1)
    \/ RemoteUpload(1)

SpecReposts == InitReposts /\ [][NextReposts]_vars

\* the four commands for group 1, one at a time and within one second, sent
\* by bot administrators and others, listed in admin_users or not, with
\* admin_users empty or holding user 1; the group was captured once before;
\* its avatar changes and images are uploaded
InitAccess ==
    /\ clock = 1
    /\ remote = [g \in Groups |-> StartGroup]
    /\ disk = [g \in Groups |-> CapturedDir(StartGroup, 1)]
    /\ run = [r \in Runs |-> IdleRun]
    /\ faults = {}
    /\ issued = 0
    /\ changed = 0
    /\ permits = DownloadPermits
    /\ asked = 0
    /\ admin_users \in {{}, {1}}
    /\ senders = Senders

NextAccess ==
    \/ Capture(1, 1)
    \/ BeginExport(1, 1)
    \/ DeleteGroupBackup(1, 1)
    \/ Restore(1, 1, 1)
    \/ RemoteChangeAvatar(1)
    \/ RemoteUpload(1)

SpecAccess == InitAccess /\ [][NextAccess]_vars

\* a remote group whose album holds more images than half the permits
BigGroup ==
    [StartGroup EXCEPT !.albums = (1 :> [name |-> "a", modify_time |-> 1,
                                         media |-> 1..(DownloadPermits \div 2 + 1)])]

\* captures of group 1 by one coroutine and an export of it by the other that
\* may overlap, each downloading the images of the album; transfers can fail,
\* or break off while the file is written
InitFetch ==
    /\ clock = 1
    /\ remote = [g \in Groups |-> BigGroup]
    /\ disk = [g \in Groups |-> EmptyDir]
    /\ run = [r \in Runs |-> IdleRun]
    /\ faults \in {{"download"}, {"torn"}}
    /\ issued = 0
    /\ changed = 0
    /\ permits = DownloadPermits
    /\ asked = 0
    /\ admin_users = {}
    /\ senders = {[is_admin |-> TRUE, user_id |-> 1]}

NextFetch ==
    \/ Capture(1, 1)
    \/ BeginExport(2, 1)
    \/ Steps(2)

SpecFetch == InitFetch /\ [][NextFetch]_vars

\* ------------------------------------------------- properties
\* the keys of the records of a list
Ids(s, key) == {s[i][key] : i \in 1..Len(s)}

\* whether record x has the fields of r with the values of r
Agrees(x, r) == \A f \in DOMAIN r : f \in DOMAIN x /\ x[f] = r[f]

\* how many records of a list have the fields of r with the values of r
CountIn(s, r) == Cardinality({i \in 1..Len(s) : Agrees(s[i], r)})

\* the archived records of a list of deleted_items.json
Contents(s) == [i \in 1..Len(s) |-> s[i].content]

\* the entries a list of logs/*.json gained since run r loaded the prior snapshot
\* (captures of the group run one at a time)
GainedLog(r, log_name) ==
    LET log == disk[run[r].group_id][log_name]
    IN  SubSeq(log, run[r].before[log_name] + 1, Len(log))

GainedArchive(r, item_type) ==
    LET items == disk[run[r].group_id].deleted_items[item_type]
    IN  SubSeq(items, run[r].before[item_type] + 1, Len(items))

\* C1: whenever a capture run ends in Success, exactly one timestamp-named
\* snapshot directory exists under its group's root, whatever directories
\* existed before and whatever other runs of the group were interleaved
C1_OneSnapshotAfterSuccess ==
    [][\A r \in Runs :
          (run[r].result # "Success" /\ run'[r].result = "Success")
          => Cardinality(SnapshotNames(disk'[run'[r].group_id])) = 1]_vars

\* C1 as amended: whenever a capture run ends in Success, its new snapshot
\* directory exists and every other timestamp-named directory under the
\* group's root is one whose removal raised in the run's prune step; when no
\* removal raised, exactly one exists
C1_OneSnapshotUnlessRemovalRaised ==
    [][\A r \in Runs :
          (run[r].result # "Success" /\ run'[r].result = "Success")
          => LET names == SnapshotNames(disk'[run'[r].group_id])
             IN  /\ run'[r].timestamp \in names
                 /\ names \ {run'[r].timestamp} = run'[r].unremoved
                 /\ run'[r].unremoved = {} => Cardinality(names) = 1]_vars

\* a run that loaded no prior snapshot ended in Success beside the snapshot
\* directory an interleaved run had written meanwhile, whose removal raised
C1_Witness ==
    \E r \in Runs :
        /\ run[r].result = "Success"
        /\ run[r].latest_data.present = {}
        /\ run[r].unremoved # {}

\* C2: when a capture run ends Failed, the next load of the latest snapshot
\* gives exactly the collections of the snapshot that was current before the
\* run, never the content of a half-written directory
C2_FailedRunKeepsPrior ==
    [][\A r \in Runs :
          (run[r].result # "Failed" /\ run'[r].result = "Failed")
          => GetLatestBackupData(disk'[run[r].group_id]) = run[r].latest_data]_vars

\* C3: a snapshot directory is deleted only by the prune step of a run that
\* has written all seven files of its new snapshot, and that run ends in
\* Success; a run that ends Failed has deleted no snapshot directory
C3_PruneOnlyAfterFullWrite ==
    [][/\ \A g \in Groups :
             SnapshotNames(disk[g]) \ SnapshotNames(disk'[g]) # {}
             => \E r \in Runs :
                   /\ run[r].group_id = g
                   /\ run[r].saved = Len(FileKeys)
                   /\ disk[g].snapshots[run[r].timestamp].present = FileKeySet
                   /\ run'[r].result = "Success"
       /\ \A r \in Runs : run'[r].result = "Failed" => run'[r].removed = {}]_vars

\* a run failed after writing part of its new snapshot, and the complete
\* snapshot it had loaded is still on disk beside the new directory
C3_Witness ==
    \E r \in Runs :
        /\ run[r].result = "Failed"
        /\ run[r].saved >= 1
        /\ run[r].latest_data.present = FileKeySet
        /\ Cardinality(SnapshotNames(disk[run[r].group_id])) = 2

\* C4: when the call for group detail, member list, notices, essence or
\* honors raises, the run still ends in Success and writes a snapshot in
\* which that kind is empty
C4_ApiFailureTolerated ==
    \A r \in Runs :
        (run[r].pc = "done"
         /\ run[r].raised \cap {"detail", "members", "notices", "essence", "honors"} # {})
        => /\ run[r].result = "Success"
           /\ LET written == GetLatestBackupData(disk[run[r].group_id])
              IN  /\ "detail" \in run[r].raised => written.group_detail = {}
                  /\ "members" \in run[r].raised => written.members = <<>>
                  /\ "notices" \in run[r].raised => written.notices = <<>>
                  /\ "essence" \in run[r].raised => written.essence = <<>>
                  /\ "honors" \in run[r].raised => written.honors = {}

\* C5: after a run that ends in Success, every notice and every essence
\* message of the prior snapshot is in the new snapshot or is stored with
\* its full content in deleted_items, also when the notice or essence call
\* failed
C5_NothingDiscarded ==
    \A r \in Runs :
        (run[r].pc = "done" /\ run[r].result = "Success")
        => LET d == disk[run[r].group_id]
               written == GetLatestBackupData(d)
               prior == run[r].latest_data
           IN  /\ \A i \in 1..Len(prior.notices) :
                     \/ prior.notices[i].notice_id \in Ids(written.notices, NoticeId)
                     \/ \E k \in 1..Len(d.deleted_items.notices) :
                           d.deleted_items.notices[k].content = prior.notices[i]
               /\ \A i \in 1..Len(prior.essence) :
                     \/ prior.essence[i].message_id \in Ids(written.essence, MessageId)
                     \/ \E k \in 1..Len(d.deleted_items.essence) :
                           d.deleted_items.essence[k].content = prior.essence[i]

\* C6: when the album list call has failed, the run classifies no album of
\* the prior snapshot as removed: no album_deleted entry is logged, no album
\* is added to deleted_items, no folder is moved into the archive tree
C6_AlbumListFailureRemovesNothing ==
    [][\A r \in Runs :
          "albums" \in run[r].raised
          => LET d == disk[run[r].group_id]
                 e == disk'[run[r].group_id]
             IN  /\ CountIn(e.content_changes, [type |-> "album_deleted"])
                    = CountIn(d.content_changes, [type |-> "album_deleted"])
                 /\ e.deleted_items.albums = d.deleted_items.albums
                 /\ e.archived_albums = d.archived_albums
                 /\ DOMAIN e.albums = DOMAIN d.albums]_vars

\* the member comparison of run r is done and its entries are written
MembersCompared(r) ==
    /\ run[r].pc \in {"notices", "essence", "honors", "albums"}
    /\ run[r].todo = <<>>
    /\ "members" \in run[r].latest_data.present

\* C7: when the prior snapshot holds a member list, a capture appends to
\* member_changes one join entry for exactly each user_id that is in the
\* fetched list and not in the prior list, one leave entry for exactly each
\* user_id that is in the prior list and not in the fetched list, and no
\* other entry
C7_MemberChangesExact ==
    \A r \in Runs :
        MembersCompared(r)
        => LET gained == GainedLog(r, "member_changes")
               old == Ids(run[r].latest_data.members, UserId)
               new == Ids(run[r].members, UserId)
           IN  /\ \A u \in UserIds :
                     /\ CountIn(gained, [type |-> "join", user_id |-> u])
                        = IF u \in new \ old THEN 1 ELSE 0
                     /\ CountIn(gained, [type |-> "leave", user_id |-> u])
                        = IF u \in old \ new THEN 1 ELSE 0
               /\ \A i \in 1..Len(gained) :
                     gained[i].type \in {"join", "leave"} /\ gained[i].user_id \in UserIds

\* a capture found one member who joined and one who left
C7_Witness ==
    \E r \in Runs :
        /\ MembersCompared(r)
        /\ \E i, j \in 1..Len(GainedLog(r, "member_changes")) :
              /\ GainedLog(r, "member_changes")[i].type = "join"
              /\ GainedLog(r, "member_changes")[j].type = "leave"

\* the notice comparison of run r is done and its entries are written
NoticesCompared(r) ==
    /\ run[r].pc = "essence"
    /\ run[r].todo = <<>>
    /\ "notices" \in run[r].latest_data.present
    /\ "notices" \notin run[r].raised

\* the notices of the prior snapshot that the fetched list does not hold
RemovedNotices(r) ==
    {n \in Range(run[r].latest_data.notices) : n.notice_id \notin Ids(run[r].notices, NoticeId)}

\* C8: a notice of the prior snapshot that the fetched list does not hold is
\* first appended to deleted_items under notices with its full prior record,
\* and after that a notice_deleted entry with its notice_id is appended to
\* content_changes
C8_RemovedNoticeArchivedThenLogged ==
    /\ \A g \in Groups : \A n \in NoticeIds :
          CountIn(disk[g].content_changes,
                  [type |-> "notice_deleted", notice_id |-> n])
          <= CountIn(Contents(disk[g].deleted_items.notices), [notice_id |-> n])
    /\ \A r \in Runs :
          NoticesCompared(r)
          => \A n \in RemovedNotices(r) :
                /\ CountIn(GainedArchive(r, "notices"), [content |-> n]) = 1
                /\ CountIn(GainedLog(r, "content_changes"),
                           [type |-> "notice_deleted", notice_id |-> n.notice_id]) = 1

\* a capture found a notice of the prior snapshot removed
C8_Witness == \E r \in Runs : NoticesCompared(r) /\ RemovedNotices(r) # {}

\* C9: a notice that is in the prior snapshot and in the fetched list with
\* another text produces a modified entry in content_changes that carries the
\* old and the new text, and no deleted_items entry
C9_ModifiedNoticeLogged ==
    \A r \in Runs :
        NoticesCompared(r)
        => \A i \in 1..Len(run[r].latest_data.notices) : \A j \in 1..Len(run[r].notices) :
              LET old == run[r].latest_data.notices[i]
                  new == run[r].notices[j]
              IN  (old.notice_id = new.notice_id /\ old.text # new.text)
                  => /\ \E k \in 1..Len(GainedLog(r, "content_changes")) :
                           LET x == GainedLog(r, "content_changes")[k]
                           IN  /\ x.type = "notice_modified"
                               /\ x.notice_id = old.notice_id
                               /\ x.old_text = old.text
                               /\ x.new_text = new.text
                     /\ CountIn(Contents(GainedArchive(r, "notices")),
                                [notice_id |-> old.notice_id]) = 0

\* C10: every record a capture classifies as removed produces a change-log
\* entry and a deleted_items entry that holds the full prior record; stated
\* for the members who left
C10_RemovedIsLoggedAndArchived ==
    \A r \in Runs :
        MembersCompared(r)
        => \A i \in 1..Len(run[r].latest_data.members) :
              LET m == run[r].latest_data.members[i]
                  d == disk[run[r].group_id]
              IN  m.user_id \notin Ids(run[r].members, UserId)
                  => /\ CountIn(GainedLog(r, "member_changes"),
                                [type |-> "leave", user_id |-> m.user_id]) >= 1
                     /\ \E t \in DOMAIN d.deleted_items :
                           \E k \in 1..Len(d.deleted_items[t]) :
                               d.deleted_items[t][k].content = m

\* the albums of run r's album loop whose modify_time is the one the prior
\* snapshot stores for the same album_id
StaleAlbums(r) ==
    {a \in Range(run[r].albums) :
        /\ "albums" \in run[r].latest_data.present
        /\ \E j \in 1..Len(run[r].latest_data.albums) :
              /\ run[r].latest_data.albums[j].album_id = a.album_id
              /\ run[r].latest_data.albums[j].modify_time = a.modify_time}

\* the media list the prior snapshot of run r stores for an album
PriorMediaList(r, album_id) ==
    IF /\ "album_media" \in run[r].latest_data.present
       /\ album_id \in DOMAIN run[r].latest_data.album_media
    THEN run[r].latest_data.album_media[album_id]
    ELSE <<>>

\* run r keeps the prior media list of an album: in its map once the album is
\* processed, and in the snapshot it wrote once it ended in Success
KeepsPriorMediaList(r, album_id) ==
    /\ album_id \in DOMAIN run[r].album_media_map
       => run[r].album_media_map[album_id] = PriorMediaList(r, album_id)
    /\ (run[r].cmd = "capture" /\ run[r].result = "Success")
       => disk[run[r].group_id].snapshots[run[r].timestamp].album_media[album_id]
          = PriorMediaList(r, album_id)

\* C11: when an album's modify_time equals the one stored for the same
\* album_id in the prior snapshot, the capture makes no media-list API call
\* for that album and stores the prior media list unchanged in the new
\* snapshot, for every prior media list, the empty one included
C11_StaleAlbumSkipsMediaCall ==
    \A r \in Runs : \A a \in StaleAlbums(r) :
        /\ a.album_id \notin run[r].media_calls
        /\ KeepsPriorMediaList(r, a.album_id)

\* C11 as amended: the same for every prior media list that is not empty;
\* when the prior list is empty or missing, the media-list call is made
C11_StaleAlbumWithMediaSkipsMediaCall ==
    \A r \in Runs : \A a \in StaleAlbums(r) :
        IF PriorMediaList(r, a.album_id) # <<>>
        THEN /\ a.album_id \notin run[r].media_calls
             /\ KeepsPriorMediaList(r, a.album_id)
        ELSE a.album_id \in DOMAIN run[r].album_media_map
             => a.album_id \in run[r].media_calls

\* a capture ended in Success after it took over the prior media list of an
\* album whose modify_time had not changed, while the album holds other media
C11_Witness ==
    \E r \in Runs : \E a \in StaleAlbums(r) :
        /\ run[r].result = "Success"
        /\ PriorMediaList(r, a.album_id) # <<>>
        /\ a.album_id \notin run[r].media_calls
        /\ ApiMedia(remote[run[r].group_id], a.album_id) # PriorMediaList(r, a.album_id)

\* the files in the folder of an album that hold media of a media list
FilesOf(d, name, media_list) ==
    IF name \in DOMAIN d.albums
    THEN d.albums[name] \cap {MediaFile(media_list[i]) : i \in 1..Len(media_list)}
    ELSE {}

\* C12: when the media-list API call for an album fails, the new media list of
\* that album is the prior media list, and no media item of that album is
\* archived (logged as deleted) or moved out of the album folder to the
\* deleted-items folder
C12_FailedMediaCallKeepsAlbum ==
    [][\A r \in Runs : \A a \in run[r].media_failed :
          LET g == run[r].group_id
              name == AlbumInfo(run[r].albums, a, [name |-> ""]).name
              prior == PriorMediaList(r, a)
              gone == [type |-> "media_deleted", album_id |-> a]
          IN  /\ run[r].album_media_map[a] = prior
              /\ CountIn(disk'[g].content_changes, gone) = CountIn(disk[g].content_changes, gone)
              /\ FilesOf(disk[g], name, prior) \subseteq FilesOf(disk'[g], name, prior)]_vars

\* whether every file of the archive tree of directory d is in e with the
\* bytes it has in d
ArchiveKept(d, e) ==
    /\ \A name \in DOMAIN d.archived_albums :
          /\ name \in DOMAIN e.archived_albums
          /\ d.archived_albums[name] \subseteq e.archived_albums[name]
    /\ \A t \in DOMAIN d.archived_avatars :
          /\ t \in DOMAIN e.archived_avatars
          /\ e.archived_avatars[t] = d.archived_avatars[t]

\* C13: an archived album folder, archived media file or archived avatar is
\* never deleted or overwritten by a later step of a capture or an export
C13_ArchiveTreeOnlyGrows ==
    [][\A g \in Groups : ArchiveKept(disk[g], disk'[g])]_vars

\* whether list t is list s with entries added at the end
Extends(s, t) == Len(s) <= Len(t) /\ SubSeq(t, 1, Len(s)) = s

\* whether the log and archive files of directory e are those of d with
\* entries added at the end
LogsExtended(d, e) ==
    /\ Extends(d.member_changes, e.member_changes)
    /\ Extends(d.content_changes, e.content_changes)
    /\ \A k \in DOMAIN d.deleted_items : Extends(d.deleted_items[k], e.deleted_items[k])

NoneLost(r) ==
    \A x \in run[r].logged :
        LET file == LogFiles(disk[run[r].group_id])[x.file]
        IN  x.at <= Len(file) /\ file[x.at] = x.entry

InTransfer(r) == {i \in 1..Len(run[r].tasks) : run[r].tasks[i].st = "transfer"}

RECURSIVE Transfers(_)
\* the number of downloads that hold a permit, over the coroutines of set rs
Transfers(rs) ==
    IF rs = {} THEN 0
    ELSE LET r == CHOOSE x \in rs : TRUE
         IN  Cardinality(InTransfer(r)) + Transfers(rs \ {r})

\* C16: at every moment at most 5 transfers are in progress over all capture
\* and export runs; a permit is held by exactly the fetches in progress, so it
\* is given back when the fetch finishes, however it finishes; once all
\* fetches have finished all 5 permits are free
C16_PermitsBoundTransfers ==
    /\ Transfers(Runs) <= DownloadPermits
    /\ permits = DownloadPermits - Transfers(Runs)
    /\ (\A r \in Runs : AllDone(run[r].tasks)) => permits = DownloadPermits

\* all permits are taken by fetches of a capture and an export, and one more
\* fetch waits for a permit
C16_Witness ==
    /\ permits = 0
    /\ Transfers(Runs) = DownloadPermits
    /\ \A r \in Runs : InTransfer(r) # {}
    /\ \E r \in Runs : \E i \in 1..Len(run[r].tasks) : run[r].tasks[i].st = "waiting"

\* C17: a fetch with overwrite off whose destination exists returns the
\* skipped outcome at once: no request is sent, no permit is taken, no file
\* changes, and the same call made again returns the same
C17_ExistingFileSkipped ==
    [][\A r \in Runs : \A i \in 1..Len(run[r].tasks) :
          LET t == run[r].tasks[i]
              g == run[r].group_id
          IN  (/\ t.st = "new"
               /\ ~t.overwrite
               /\ Bytes(disk[g], t.path) # "none"
               /\ i <= Len(run'[r].tasks)
               /\ run'[r].tasks[i].st # "new")
              => LET u == run'[r].tasks[i]
                     again == Started(NewTask(t.path, FALSE), disk'[g], permits')
                 IN  /\ u.st = "done" /\ u.result = TRUE /\ u.outcome = "skipped"
                     /\ ~u.called
                     /\ permits' = permits
                     /\ disk' = disk
                     /\ again.st = "done" /\ again.result = TRUE /\ again.outcome = "skipped"]_vars

\* a fetch of an album image found the file that a fetch of the other command
\* had written, and returned without a request
C17_Witness ==
    \E r \in Runs : \E i \in 1..Len(run[r].tasks) :
        /\ run[r].tasks[i].st = "done"
        /\ ~run[r].tasks[i].overwrite
        /\ run[r].tasks[i].pre = "full"
        /\ run[r].tasks[i].outcome = "skipped"
        /\ \E r2 \in Runs \ {r} : \E x \in run[r2].fetched :
              x.file = run[r].tasks[i].path.file /\ x.outcome = "ok"

\* the transfers that met a non-success status or a network error
FailedOutcomes == {"status", "error"}

\* C18: a fetch that meets a non-success status or a network error returns a
\* failure value and raises nothing to its caller: no run fails; the other
\* fetches of its batch all return before the batch is left; and the capture
\* goes on to write its whole snapshot and ends in Success
C18_FailedFetchIsSoft ==
    \A r \in Runs :
        /\ \A i \in 1..Len(run[r].tasks) :
              (run[r].tasks[i].st = "done" /\ run[r].tasks[i].outcome \in FailedOutcomes)
              => run[r].tasks[i].result = FALSE
        /\ run[r].result # "Failed"
        /\ \A x \in run[r].fetched : x.outcome # "none"
        /\ (run[r].pc = "done" /\ run[r].cmd = "capture"
            /\ \E x \in run[r].fetched : x.outcome \in FailedOutcomes)
           => /\ run[r].result = "Success"
              /\ run[r].timestamp \in SnapshotNames(disk[run[r].group_id])
              /\ disk[run[r].group_id].snapshots[run[r].timestamp].present = FileKeySet

\* a capture ended in Success after a batch in which one fetch met a failure
\* and another downloaded its file
C18_Witness ==
    \E r \in Runs :
        /\ run[r].cmd = "capture"
        /\ run[r].result = "Success"
        /\ \E x, y \in run[r].fetched :
              /\ x.album = y.album
              /\ x.outcome \in FailedOutcomes
              /\ y.outcome = "ok"

\* C19: after any fetch the destination either is as it was or holds the
\* complete bytes of the new transfer; a fetch that reports failure has
\* neither created nor modified the destination file
C19_FetchWritesAllOrNothing ==
    [][\A r \in Runs : \A i \in 1..Len(run[r].tasks) :
          LET t == run[r].tasks[i]
              g == run[r].group_id
              was == Bytes(disk[g], t.path)
              is == Bytes(disk'[g], t.path)
          IN  (/\ t.st = "transfer"
               /\ i <= Len(run'[r].tasks)
               /\ run'[r].tasks[i].st = "done")
              => /\ is = was \/ is = ResponseBody(remote[g], t.path)
                 /\ run'[r].tasks[i].result = FALSE => is = was]_vars

\* whether coroutine r fetched, in its avatar stage, the bytes that
\* group_avatar.png held
FetchedStoredAvatar(rr) ==
    /\ rr.avatar_was # <<>>
    /\ rr.avatar_was.fetched = "ok"
    /\ rr.avatar_was.avatar # "none"
    /\ rr.avatar_was.body = rr.avatar_was.avatar

\* C20: a capture whose freshly fetched avatar has the hash of the stored
\* group_avatar.png leaves group_avatar.png unchanged, writes no archived
\* avatar file and no avatar-updated log entry, and leaves no temporary
\* avatar file behind: so it is when its avatar stage ends
C20_SameAvatarChangesNothing ==
    [][\A r \in Runs :
          (/\ run'[r].pc = "members"
           /\ run'[r].todo = <<>>
           /\ run[r].pc = "avatar_wait" \/ (run[r].pc = "members" /\ run[r].todo # <<>>)
           /\ FetchedStoredAvatar(run'[r]))
          => LET d == disk'[run'[r].group_id]
                 was == run'[r].avatar_was
             IN  /\ d.avatar = was.avatar
                 /\ d.archived_avatars = was.archived_avatars
                 /\ Len(d.content_changes) = was.content_changes
                 /\ d.temp_avatar = "none"]_vars

\* a capture has ended its avatar stage after it fetched the very avatar that
\* an overlapping capture, still running, had stored
C20_Witness ==
    \E r \in Runs :
        /\ run[r].pc = "members"
        /\ run[r].todo = <<>>
        /\ FetchedStoredAvatar(run[r])
        /\ \E r2 \in Runs \ {r} : run[r2].cmd = "capture" /\ run[r2].pc \notin {"idle", "done"}

\* whether coroutine r has replaced group_avatar.png in its avatar stage
ReplacedAvatar(rr) ==
    /\ rr.avatar_was # <<>>
    /\ rr.avatar_was.avatar # "none"
    /\ rr.avatar_was.temp_avatar \notin {"none", rr.avatar_was.avatar}
    /\ rr.pc # "avatar_wait"
    /\ ~(rr.pc = "members" /\ rr.todo # <<>>)

\* the bytes of the files avatar_<timestamp>.png of the archive tree
ArchivedAvatarBytes(d) == {d.archived_avatars[t] : t \in DOMAIN d.archived_avatars}

\* C21: when the fetched avatar differs from group_avatar.png, the old bytes
\* are copied into the archive tree before the file is replaced: in no
\* reachable state have the old bytes left group_avatar.png without a copy of
\* them under logs/deleted_items/ (stated for the states in which no
\* coroutine is in the middle of its file operations)
C21_OldAvatarKeepsCopy ==
    \A r \in Runs :
        (/\ \A q \in Runs : run[q].todo = <<>>
         /\ ReplacedAvatar(run[r])
         /\ disk[run[r].group_id].avatar # run[r].avatar_was.avatar)
        => run[r].avatar_was.avatar \in ArchivedAvatarBytes(disk[run[r].group_id])

\* a step of a capture of group 1 that is not the first one, in a behaviour
\* in which no call fails and the group has not changed since the start
RerunStep ==
    /\ faults = {}
    /\ changed = 0
    /\ issued >= 2
    /\ run[1].pc # "idle"
    /\ run'[1] # run[1]

\* the stored binary files of a group directory: album folders, archive
\* folders, group_avatar.png and the archived avatars
AssetFiles(d) ==
    [albums |-> d.albums, torn |-> d.torn, archived_albums |-> d.archived_albums,
     avatar |-> d.avatar, archived_avatars |-> d.archived_avatars]

\* the step appends to no log or archive file and moves, renames or rewrites
\* no stored file; no media download of the run did more than skip; and the
\* snapshot written equals the prior one
RerunChangesNothing ==
    /\ LogFiles(disk'[1]) = LogFiles(disk[1])
    /\ AssetFiles(disk'[1]) = AssetFiles(disk[1])
    /\ \A f \in run'[1].fetched : f.outcome = "skipped"
    /\ run'[1].pc = "done" =>
          /\ run'[1].result = "Success"
          /\ run'[1].logged = {}
          /\ \A k \in FileKeySet :
                /\ k \in disk'[1].snapshots[run'[1].timestamp].present
                /\ k \in run'[1].latest_data.present
                /\ disk'[1].snapshots[run'[1].timestamp][k] = run'[1].latest_data[k]

C23_FreshSnapshotDirectory ==
    [][\A r \in Runs :
          LET g == run[r].group_id
          IN  /\ (run[r].pc = "prepare" /\ run'[r].pc = "save")
                    => run'[r].timestamp \notin SnapshotNames(disk[g])
              /\ (run[r].pc = "save" /\ run'[r] # run[r])
                    => \A n \in SnapshotNames(disk[g]) \cap SnapshotNames(disk'[g]) :
                          disk'[g].snapshots[n] # disk[g].snapshots[n]
                             => n = run[r].timestamp]_vars

\* C24: after the delete operation for a group that has data, nothing exists
\* under the group's root (snapshots, albums, avatar, logs and archive are
\* gone) and the loader returns an empty result for the group; a delete that
\* does not report success is one whose rmtree raised
C24_DeleteLeavesNothing ==
    [][\A r \in Runs :
          (run[r].pc = "idle" /\ run'[r].cmd = "delete" /\ disk[run'[r].group_id] # EmptyDir)
          => /\ run'[r].result \in {"Deleted", "DeleteFailed"}
             /\ run'[r].result = "DeleteFailed" => "rmtree" \in faults
             /\ run'[r].result = "Deleted" =>
                   /\ disk'[run'[r].group_id] = EmptyDir
                   /\ GetLatestBackupData(disk'[run'[r].group_id]) = EmptyData]_vars

\* a delete command has removed the directory of a group that had a snapshot
\* and an avatar and that a capture, still under way, has logged entries to
C24_Witness ==
    \E r \in Runs :
        /\ run[r].cmd = "delete"
        /\ run[r].result = "Deleted"
        /\ disk[run[r].group_id] = EmptyDir
        /\ \E r2 \in Runs \ {r} :
              /\ run[r2].group_id = run[r].group_id
              /\ run[r2].pc \notin {"idle", "done"}
              /\ run[r2].latest_data.present = FileKeySet
              /\ run[r2].logged # {}
              /\ run[r2].avatar_was # <<>>

\* C25: a capture or delete operation for group A never creates, modifies or
\* deletes a file under the directory of another group B, in any interleaving
\* of runs for different groups: a step that changes the directory of B is a
\* step of a command for B
C25_OtherGroupsUntouched ==
    [][\A b \in Groups :
          disk'[b] # disk[b]
          => \E r \in Runs :
                /\ run'[r] # run[r]
                /\ b = (IF run[r].pc = "idle" THEN run'[r].group_id ELSE run[r].group_id)]_vars

\* a capture of one group and a delete command for the other have both
\* changed files while the other was under way: the capture has logged
\* entries and the directory of the other group is gone
C25_Witness ==
    \E r \in Runs : \E r2 \in Runs \ {r} :
        /\ run[r].cmd = "capture"
        /\ run[r].pc \notin {"idle", "done"}
        /\ run[r].logged # {}
        /\ run[r2].cmd = "delete"
        /\ run[r2].result = "Deleted"
        /\ run[r2].group_id # run[r].group_id
        /\ disk[run[r2].group_id] = EmptyDir
        /\ disk[run[r].group_id] # EmptyDir

\* C26: the loader reads the snapshot directory whose name is the greatest;
\* a collection whose file is missing from that directory, or holds no valid
\* JSON, is left out of the result, and every other collection of the
\* directory is returned as the file holds it
C26_LoaderOmitsBadFiles ==
    \A g \in Groups :
        SnapshotNames(disk[g]) # {} =>
            \E n \in SnapshotNames(disk[g]) :
                /\ \A m \in SnapshotNames(disk[g]) : m <= n
                /\ LET dir == disk[g].snapshots[n]
                       data == GetLatestBackupData(disk[g])
                   IN  \A k \in FileKeySet :
                          IF k \in dir.present /\ k \notin dir.torn
                          THEN k \in data.present /\ data[k] = dir[k]
                          ELSE k \notin data.present /\ data[k] = EmptyData[k]

\* a capture has loaded a snapshot directory in which one file loads, one
\* holds a write that broke off and the others are missing
C26_Witness ==
    LET dir == disk[1].snapshots[Max(SnapshotNames(disk[1]))]
    IN  /\ run[1].pc = "detail"
        /\ SnapshotNames(disk[1]) # {}
        /\ dir.present # {}
        /\ dir.torn # {}
        /\ dir.present \cup dir.torn # FileKeySet
        /\ run[1].latest_data = GetLatestBackupData(disk[1])
        /\ run[1].latest_data.present = dir.present

\* C27: when an album id is in the prior snapshot and absent from the fetched
\* album list, then after step 7 of the capture the album's media folder is
\* no longer under albums/ and the files of its prior media list are under
\* logs/deleted_items/albums/<album name> (downloads never failing)
C27_RemovedAlbumFolderArchived ==
    \A r \in Runs :
        (run[r].cmd = "capture" /\ run[r].pc = "prepare" /\ run[r].todo = <<>>
         /\ "download" \notin faults)
        => LET rr == run[r]
               d == disk[rr.group_id]
               fetched == {rr.albums[i].album_id : i \in 1..Len(rr.albums)}
               prior == {rr.latest_data.albums[i] : i \in 1..Len(rr.latest_data.albums)}
           IN  \A a \in prior :
                  (a.album_id \notin fetched /\ a.album_id \in DOMAIN rr.latest_data.album_media)
                  => /\ a.name \notin DOMAIN d.albums
                     /\ \A i \in 1..Len(rr.latest_data.album_media[a.album_id]) :
                           /\ a.name \in DOMAIN d.archived_albums
                           /\ MediaFile(rr.latest_data.album_media[a.album_id][i])
                                 \in d.archived_albums[a.name]

\* C28: for an album that still exists, every media item of the prior media
\* list that the new list does not hold has its file moved from the album
\* folder into the archive tree: after step 7 of the capture the file is not
\* in the album folder and is under logs/deleted_items/albums/<album name>
\* (downloads never failing)
C28_RemovedMediaFileArchived ==
    \A r \in Runs :
        (run[r].cmd = "capture" /\ run[r].pc = "prepare" /\ run[r].todo = <<>>
         /\ "download" \notin faults /\ "album_media" \in run[r].latest_data.present)
        => LET rr == run[r]
               d == disk[rr.group_id]
           IN  \A i \in 1..Len(rr.albums) :
                  LET a == rr.albums[i]
                      old == OldMediaList(rr.latest_data, a.album_id)
                      new == rr.album_media_map[a.album_id]
                  IN  \A j \in 1..Len(old) :
                         (\A k \in 1..Len(new) : new[k].media_id # old[j].media_id)
                         => /\ MediaFile(old[j]) \notin AlbumFiles(d, a.name)
                            /\ a.name \in DOMAIN d.archived_albums
                            /\ MediaFile(old[j]) \in d.archived_albums[a.name]

\* C29: when an album id persists and its name differs from the prior
\* snapshot's, the rename step moves the media folder from the old name to the
\* new name only if the old folder exists and no folder of the new name
\* does, and logs the rename; else, so when the destination exists, it
\* changes nothing: no folder is overwritten or merged
C29_RenameNeverOverwrites ==
    [][\A r \in Runs :
          LET rr == run[r]
              g == rr.group_id
              known == {i \in 1..Len(rr.latest_data.albums) :
                           Len(rr.raw_albums) > 0
                           /\ rr.latest_data.albums[i].album_id = Head(rr.raw_albums).album_id}
          IN  /\ (/\ rr.pc = "album_loop" /\ rr.todo = <<>> /\ rr.raw_albums # <<>>
                  /\ run'[r] # rr
                  /\ "albums" \in rr.latest_data.present /\ known # {}
                  /\ rr.latest_data.albums[Max(known)].name # Head(rr.raw_albums).name)
                 => /\ run'[r].todo # <<>>
                    /\ Head(run'[r].todo) =
                          [op |-> "rename_album", album_id |-> Head(rr.raw_albums).album_id,
                           old_name |-> rr.latest_data.albums[Max(known)].name,
                           new_name |-> Head(rr.raw_albums).name]
              /\ (/\ rr.todo # <<>> /\ Head(rr.todo).op = "rename_album"
                  /\ run'[r].todo = Tail(rr.todo))
                 => LET op == Head(rr.todo)
                        was == disk[g].albums
                        is == disk'[g].albums
                    IN  IF op.old_name \in DOMAIN was /\ op.new_name \notin DOMAIN was
                        THEN /\ DOMAIN is = (DOMAIN was \ {op.old_name}) \cup {op.new_name}
                             /\ is[op.new_name] = was[op.old_name]
                             /\ \A n \in DOMAIN was \ {op.old_name} : is[n] = was[n]
                             /\ \E e \in run'[r].logged \ rr.logged :
                                   e.file = "content_changes" /\ e.entry.type = "album_renamed"
                             /\ [disk'[g] EXCEPT !.albums = was, !.content_changes = <<>>]
                                   = [disk[g] EXCEPT !.content_changes = <<>>]
                        ELSE disk'[g] = disk[g]]_vars

\* the rename step has acted for an album whose prior name and new name both
\* have a folder, and the two folders hold different files
C29_Witness ==
    \E r \in Runs :
        LET rr == run[r]
        IN  /\ rr.cmd = "capture"
            /\ rr.pc \in {"album_loop", "media"}
            /\ rr.albums # <<>>
            /\ ~(rr.todo # <<>> /\ Head(rr.todo).op = "rename_album")
            /\ \E i \in 1..Len(rr.latest_data.albums) :
                  LET old == rr.latest_data.albums[i]
                      new == rr.albums[Len(rr.albums)]
                      folders == disk[rr.group_id].albums
                  IN  /\ old.album_id = new.album_id
                      /\ old.name # new.name
                      /\ old.name \in DOMAIN folders
                      /\ new.name \in DOMAIN folders
                      /\ folders[old.name] # folders[new.name]

\* C30: every capture that has passed its checks and yielded the start
\* message eventually yields one terminal result, the success message or
\* the failure message, provided every call it awaits returns or raises; it
\* ends with no other result, and a result once yielded is not followed by
\* another
C30_CaptureEndsWithOneResult ==
    /\ \A r \in Runs :
          (run[r].cmd = "capture" /\ run[r].pc = "started")
          ~> (run[r].pc = "done" /\ run[r].result \in {"Success", "Failed"})
    /\ [][\A r \in Runs :
             /\ (run[r].cmd = "capture" /\ run[r].pc = "done")
                   => /\ run[r].result \in {"Success", "Failed"}
                      /\ run'[r] \in {run[r], IdleRun}
             /\ (run[r].cmd = "capture" /\ run[r].pc \notin {"idle", "done"})
                   => /\ run[r].result = "none"
                      /\ run'[r].pc # "idle"
                      /\ (run'[r].result # "none") = (run'[r].pc = "done")]_vars

\* one capture has ended with the failure message and an overlapping one
\* with the success message
C30_Witness ==
    /\ run[1].cmd = "capture" /\ run[1].pc = "done" /\ run[1].result = "Failed"
    /\ run[2].cmd = "capture" /\ run[2].pc = "done" /\ run[2].result = "Success"

\* C31: no collection file of a run's snapshot is written while a download
\* the run started is still in progress: a run leaves the gather of an album's
\* downloads only when every download of the batch has returned, and it is
\* at the album loop, at step 7 or at the snapshot write with no download of
\* its own outstanding
C31_BatchJoinedBeforeGoingOn ==
    [][\A r \in Runs :
          LET pending == {i \in 1..Len(run[r].tasks) : run[r].tasks[i].st # "done"}
          IN  /\ (run[r].pc = "gather" /\ run'[r].pc # "gather") => pending = {}
              /\ run[r].pc \in {"album_loop", "prepare", "save", "prune"} => run[r].tasks = <<>>
              /\ \A f \in run'[r].fetched : f.outcome # "none"
              /\ (run[r].pc = "save" /\ run'[r].saved # run[r].saved)
                 => /\ pending = {}
                    /\ \A a \in DOMAIN run[r].album_media_map :
                       \A i \in 1..Len(run[r].album_media_map[a]) :
                          a \in run[r].media_calls \ run[r].media_failed
                          => \E f \in run[r].fetched :
                                f.file = MediaFile(run[r].album_media_map[a][i])]_vars

\* a capture writes a file of its snapshot after a batch of three downloads,
\* of which one was transferred and one failed, while a download of the
\* export that runs beside it is still in progress
C31_Witness ==
    \E r \in Runs :
        /\ run[r].pc = "save"
        /\ run[r].saved >= 1
        /\ Cardinality(run[r].fetched) >= 3
        /\ \E f, h \in run[r].fetched : f.outcome = "ok" /\ h.outcome \in {"status", "error", "torn"}
        /\ \E q \in Runs \ {r} : \E i \in 1..Len(run[q].tasks) : run[q].tasks[i].st = "transfer"

\* C32: a member who is in the prior and in the fetched member list with
\* another card, role or title gets no entry in member_changes,
\* content_changes or deleted_items from the capture; the changed fields are
\* in the member list of the snapshot the capture writes
C32_ChangedMemberNotLogged ==
    \A r \in Runs :
        "members" \in run[r].latest_data.present
        => \A i \in 1..Len(run[r].latest_data.members) : \A j \in 1..Len(run[r].members) :
              LET old == run[r].latest_data.members[i]
                  new == run[r].members[j]
              IN  (old.user_id = new.user_id /\ old # new)
                  => /\ \A e \in run[r].logged :
                           /\ "user_id" \in DOMAIN e.entry => e.entry.user_id # old.user_id
                           /\ "content" \in DOMAIN e.entry => e.entry.content \notin {old, new}
                     /\ (run[r].pc = "done" /\ run[r].result = "Success")
                        => new \in Range(GetLatestBackupData(disk[run[r].group_id]).members)

\* a capture that ended in Success found a member with another card, role
\* or title than in the prior snapshot, and logged the join of another one
C32_Witness ==
    \E r \in Runs :
        /\ run[r].pc = "done"
        /\ run[r].result = "Success"
        /\ \E i \in 1..Len(run[r].latest_data.members) : \E j \in 1..Len(run[r].members) :
              /\ run[r].latest_data.members[i].user_id = run[r].members[j].user_id
              /\ run[r].latest_data.members[i] # run[r].members[j]
        /\ \E e \in run[r].logged : e.file = "member_changes" /\ e.entry.type = "join"

C34_NoticeAddedOnce ==
    \A g \in Groups : \A n \in DOMAIN remote[g].notices :
        CountIn(disk[g].content_changes, [type |-> "notice_added", notice_id |-> n]) <= 1

\* C35: when two captures of a group overlap, each membership change
\* between the prior snapshot and the group's member list is logged once in
\* member_changes: the two never both log the same join or the same leave
C35_MemberChangeLoggedOnce ==
    \A r \in Runs : \A q \in Runs \ {r} :
        run[r].group_id = run[q].group_id
        => \A e \in run[r].logged : \A f \in run[q].logged :
              ~ /\ e.file = "member_changes"
                /\ f.file = "member_changes"
                /\ e.entry.type = f.entry.type
                /\ e.entry.user_id = f.entry.user_id

\* C36: for each of the four commands, a sender who is no bot administrator
\* and is not listed in admin_users gets the refusal, and the command calls
\* no API and changes no file, also when admin_users is empty
C36_OthersAreRefused ==
    [][\A r \in Runs :
          LET event == run'[r].sender
          IN  (event # <<>> /\ ~event.is_admin /\ event.user_id \notin admin_users)
              => /\ run'[r].pc = "done"
                 /\ run'[r].result = "Refused"
                 /\ run[r].pc = "idle" => (disk' = disk /\ remote' = remote)]_vars

\* C37: no step of an export or of a restore creates, changes or deletes a
\* snapshot directory or a file in one: after the step the latest snapshot of
\* every group loads as before; a step that changes the snapshot directories
\* of a group is a step of a capture or of a delete for that group
C37_ExportRestoreKeepSnapshots ==
    [][LET \* the command a step of slot r belongs to
           stepOf(r) == IF run[r].pc = "idle" THEN run'[r] ELSE run[r]
       IN  /\ \A r \in Runs :
                 (run'[r] # run[r] /\ stepOf(r).cmd \in {"export", "restore"})
                 => \A g \in Groups :
                       /\ disk'[g].snapshots = disk[g].snapshots
                       /\ GetLatestBackupData(disk'[g]) = GetLatestBackupData(disk[g])
           /\ \A g \in Groups :
                 disk'[g].snapshots # disk[g].snapshots
                 => \E r \in Runs : /\ run'[r] # run[r]
                                    /\ stepOf(r).cmd \in {"capture", "delete"}
                                    /\ stepOf(r).group_id = g]_vars

\* an export of a group that has a snapshot has run _backup_albums, which
\* renamed an album folder and logged that
C37_Witness ==
    \E r \in Runs :
        /\ run[r].cmd = "export"
        /\ run[r].result = "Exported"
        /\ run[r].logged # {}
        /\ SnapshotNames(disk[run[r].group_id]) # {}

\* C38: a restore that sets the target group from a snapshot written by a
\* capture leaves every member of the target group whose backed-up record
\* carries a title with that title as their special title
C38_RestoreSetsTitle ==
    [][\A r \in Runs :
          (run[r].pc = "idle" /\ run'[r].cmd = "restore" /\ run'[r].result = "Restored")
          => LET backup_members == run'[r].latest_data.members
                 target == remote'[run'[r].group_id].members
             IN  \A i \in 1..Len(backup_members) :
                    LET bm == backup_members[i]
                    IN  (bm.user_id \in DOMAIN target /\ "title" \in DOMAIN bm /\ bm.title # "")
                        => target[bm.user_id].title = bm.title]_vars

====
